---- MODULE Spec2Model ----
(***************************************************************************)
(* A model of the multiformats library: varint, multicodec, multibase,     *)
(* multihash, CID and multiaddr.                                           *)
(*                                                                         *)
(* Conventions.                                                            *)
(*  - A byte string is a sequence of integers in 0..255.                   *)
(*  - A text string is the sequence of its code points.                    *)
(*  - A Python int is a record [neg, mag]: a sign and the magnitude as the *)
(*    little-endian sequence of its 7-bit groups, without high zero        *)
(*    groups (0 is <<>>).  The values varint is about reach 2^63 and       *)
(*    beyond, which the model checker's machine integers cannot hold.      *)
(*  - The outcome of a call is a record whose field err is "none" or the   *)
(*    name of the exception the call raised.                               *)
(***************************************************************************)
EXTENDS Integers, Sequences, FiniteSets, TLC

VARIABLES
    vop,      \* varint: the last call ("none", "encode", "decode", "roundtrip",
              \* "decode_raw", "decode_stream", "decode_raw_stream");
              \* the fields of the other calls are reset by each call
    vx,       \* varint: the integer last given to encode
    venc,     \* varint: the outcome of that encode call
    vin,      \* varint: the byte string last given to decode
    vdec,     \* varint: the outcome of that decode call
    vpos,     \* varint: the position of the stream last given to decode, the
              \* stream holding vin; 0 when the call was not on a stream
    cop,      \* CID: the last call ("none", "new", "peer_id", "decode", "set",
              \* "keep", "other", "roundtrip_str", "roundtrip_bytes")
    cid,      \* CID: the CID object the program holds, or NoCID
    cother,   \* CID: the CID object the last call on cid returned, or NoCID
    cerr,     \* CID: "none" or the exception the last call raised
    cin,      \* CID: the bytes or the string last given to decode
    instances, \* CID: the table of instances, which holds the live objects
    mop,      \* multiaddr: the last call ("none", "build", "decode", "parse",
              \* "roundtrip_bytes", "roundtrip_str", "slash", "slice",
              \* "taken")
    ma,       \* multiaddr: the Multiaddr the program holds, or NoMultiaddr
    mres,     \* multiaddr: the Multiaddr the last call on ma returned
    merr,     \* multiaddr: "none" or the exception the last call raised
    min,      \* multiaddr: the input of the last call: the bytes or the
              \* string given to decode or parse, the Protos and Addrs given
              \* to Multiaddr, the right operand of /, the slice
    mallow,   \* multiaddr: the allow_incomplete of the last parse
    _code_table, \* multicodec: the table of registered multicodecs by code
    _name_table, \* multicodec: the table of registered multicodecs by name
    rop,      \* multicodec: the last call ("none", "register", "unregister",
              \* "wrap")
    rarg,     \* multicodec: the arguments of that call
    rres,     \* multicodec: the outcome of that call
    tin,      \* multicodec: the entries given to build_multicodec_tables
    tres,     \* multicodec: the outcome of build_multicodec_tables, or NoTables
    multibase_code_table, \* multibase: the registered multibases by code
    multibase_name_table, \* multibase: the registered multibases by name
    bop,      \* multibase: the last call ("none", "register", "unregister",
              \* "encode")
    barg,     \* multibase: the arguments of that call
    bres,     \* multibase: the outcome of that call
    xin,      \* multibase: the arguments given to Multibase(...)
    xres,     \* multibase: the outcome of Multibase(...), or NoOutcome
    hin,      \* multihash: the call to make and its arguments
    hres,     \* multihash: the outcome of that call, or NoOutcome
    pin,      \* proquint: the bytes to encode or the string to decode
    pres,     \* proquint: the outcome of the calls on pin, or NoDigest
    __instances, \* CID, threads: the table of instances, key to object
    pc,       \* CID, threads: where each thread is in CID._new_instance
    tkey,     \* CID, threads: the key each thread has built
    tinstance, \* CID, threads: the object each thread refers to (the
              \* local variable instance), 0 for None
    allocated, \* CID, threads: the number of CID objects made so far
    _raw_encodings, \* multibase.raw: the registered raw encodings by name
    lop,      \* multibase.raw: the last call ("none", "register",
              \* "unregister", "get")
    larg,     \* multibase.raw: the arguments of that call
    lres,     \* multibase.raw: the outcome of that call
    aop,      \* Proto: the last call ("none", "is_addr_valid", "contains")
    aproto,   \* Proto: the protocol of that call
    avalue,   \* Proto: the address value given to that call
    avalid    \* Proto: the outcome of that call

varintVars == <<vop, vx, venc, vin, vdec, vpos>>
cidVars == <<cop, cid, cother, cerr, cin, instances>>
multiaddrVars == <<mop, ma, mres, merr, min, mallow>>
multicodecVars == <<_code_table, _name_table, rop, rarg, rres>>
tableVars == <<tin, tres>>
multibaseVars ==
    <<multibase_code_table, multibase_name_table, bop, barg, bres>>
constructVars == <<xin, xres>>
multihashVars == <<hin, hres>>
proquintVars == <<pin, pres>>
threadVars == <<__instances, pc, tkey, tinstance, allocated>>
rawVars == <<_raw_encodings, lop, larg, lres>>
protoVars == <<aop, aproto, avalue, avalid>>
laterVars == <<proquintVars, threadVars, rawVars, protoVars>>
restVars ==
    <<multicodecVars, tableVars, multibaseVars, constructVars, multihashVars,
      laterVars>>
vars == <<varintVars, cidVars, multiaddrVars, restVars>>

\* ------------------------------------------------------------------ bounds

\* Integers given to encode have at most MaxGroups low 7-bit groups below
\* their top group.
MaxGroups == 10
\* Byte strings given to decode start with at most MaxCont continuation bytes
MaxCont == 10
\* followed by at most MaxTail further bytes.
MaxTail == 2

\* ------------------------------------------------------------------ helpers

\* The sequence of n copies of v.
Rep(n, v) == [i \in 1..n |-> v]

\* F of the value v: what F makes of a value once it has a name.
With(v, F(_)) == F(v)

\* All sequences over S of length at most n.
SeqsUpTo(S, n) == UNION {[1..k -> S] : k \in 0..n}

\* ------------------------------------------------------------------ varint

_max_num_bytes == 9

NoBytes == <<>>

\* x & 0b0111_1111 of a non-negative int
Low7(mag) == IF mag = <<>> THEN 0 ELSE Head(mag)

\* x >> 7 of a non-negative int
Shr7(mag) == IF mag = <<>> THEN <<>> ELSE Tail(mag)

\* decode_raw adding the group without shifting it into place.
AddShifted_NoShift(mag, g, n) ==
    IF g = 0 THEN mag
    ELSE mag \o <<g>>

\* x + (g << (7*n)) for x < 2^(7*n) and 0 <= g < 128
AddShifted(mag, g, n) ==
    IF g = 0 THEN mag
    ELSE mag \o Rep(n - Len(mag), 0) \o <<g>>

\* x < 2**(7*k)
Below2Pow7(mag, k) == Len(mag) <= k

\* encode with the length limit off by one: ten bytes are let through.
EncodeTooLong_OffByOne(acc) == Len(acc) > _max_num_bytes

\* "len(varint_bytelist) >= _max_num_bytes", after a continuation byte
EncodeTooLong(acc) == Len(acc) >= _max_num_bytes

\* The loop of encode: x is what is left of the integer, acc the bytes so far.
RECURSIVE encode_loop(_, _)
encode_loop(mag, acc) ==
    LET next_byte == Low7(mag)
        rest == Shr7(mag)
    IN  IF rest # <<>>
        THEN LET acc2 == Append(acc, next_byte + 128)
             IN  IF EncodeTooLong(acc2)
                 THEN [err |-> "ValueError", bytes |-> NoBytes]
                 ELSE encode_loop(rest, acc2)
        ELSE [err |-> "none", bytes |-> Append(acc, next_byte)]

\* varint.encode(x)
varint_encode(x) ==
    IF x.neg
    THEN [err |-> "ValueError", bytes |-> NoBytes]
    ELSE encode_loop(x.mag, <<>>)

\* The outcome of a failed decode.
DecodeError == [err |-> "ValueError", val |-> <<>>, n |-> 0, rest |-> NoBytes]

\* decode_raw without the check of minimal encoding.
NotMinimal_Unchecked(x, num_bytes_read) == FALSE

\* "num_bytes_read > 1 and x < 2**(7*(num_bytes_read-1))"
NotMinimal(x, num_bytes_read) ==
    num_bytes_read > 1 /\ Below2Pow7(x, num_bytes_read - 1)

\* The loop of decode_raw on a bytes-like object, and the checks after it.
RECURSIVE decode_raw_loop(_, _, _)
decode_raw_loop(b, num_bytes_read, x) ==
    IF num_bytes_read >= Len(b)
    THEN DecodeError
    ELSE LET next_byte == b[num_bytes_read + 1]
             x2 == AddShifted(x, next_byte % 128, num_bytes_read)
             expect_next == (next_byte \div 128) = 1
             n2 == num_bytes_read + 1
         IN  IF expect_next /\ n2 >= _max_num_bytes
             THEN DecodeError
             ELSE IF expect_next
             THEN decode_raw_loop(b, n2, x2)
             ELSE IF NotMinimal(x2, n2)
             THEN DecodeError
             ELSE [err |-> "none", val |-> x2, n |-> n2,
                   rest |-> SubSeq(b, n2 + 1, Len(b))]

\* varint.decode_raw(b) for a bytes-like b
varint_decode_raw(b) == decode_raw_loop(b, 0, <<>>)

\* varint.decode(b) for a bytes-like b
varint_decode(b) ==
    LET r == varint_decode_raw(b)
    IN  IF r.err # "none" THEN r
        ELSE IF Len(b) > r.n THEN DecodeError
        ELSE r

\* b.read(1) on a stream that peeks: the byte is returned and not consumed.
stream_read1_Peek(data, pos) ==
    IF pos < Len(data)
    THEN [bytes |-> <<data[pos + 1]>>, pos |-> pos]
    ELSE [bytes |-> <<>>, pos |-> pos]

\* b.read(1) on a stream holding data, at position pos: the byte read, none
\* at the end of the stream, and the position after the read
stream_read1(data, pos) ==
    IF pos < Len(data)
    THEN [bytes |-> <<data[pos + 1]>>, pos |-> pos + 1]
    ELSE [bytes |-> <<>>, pos |-> pos]

\* The loop of decode_raw on a stream, and the checks after it: the outcome,
\* of which rest is what the returned stream has left to read, and the
\* position of the stream.
RECURSIVE decode_raw_stream_loop(_, _, _, _)
decode_raw_stream_loop(data, pos, num_bytes_read, x) ==
    LET _next_byte == stream_read1(data, pos)
    IN  IF Len(_next_byte.bytes) = 0
        THEN [out |-> DecodeError, pos |-> _next_byte.pos]
        ELSE LET next_byte == _next_byte.bytes[1]
                 x2 == AddShifted(x, next_byte % 128, num_bytes_read)
                 expect_next == (next_byte \div 128) = 1
                 n2 == num_bytes_read + 1
             IN  IF expect_next /\ n2 >= _max_num_bytes
                 THEN [out |-> DecodeError, pos |-> _next_byte.pos]
                 ELSE IF expect_next
                 THEN decode_raw_stream_loop(data, _next_byte.pos, n2, x2)
                 ELSE IF NotMinimal(x2, n2)
                 THEN [out |-> DecodeError, pos |-> _next_byte.pos]
                 ELSE [out |-> [err |-> "none", val |-> x2, n |-> n2,
                                rest |-> SubSeq(data, _next_byte.pos + 1,
                                                Len(data))],
                       pos |-> _next_byte.pos]

\* varint.decode_raw(b) for a stream b
varint_decode_raw_stream(data, pos) ==
    decode_raw_stream_loop(data, pos, 0, <<>>)

\* varint.decode(b) for a stream b: a stream is not bytes-like, and the bytes
\* left in it are no error
varint_decode_stream(data, pos) == varint_decode_raw_stream(data, pos)

\* The integers the model gives to encode: the low groups all 0 or all 127,
\* below a top group of 1 or 127; zero; and the negatives of these.
EncodeMagnitudes ==
    {<<>>} \cup
    {Rep(j, l) \o <<t>> : j \in 0..MaxGroups, l \in {0, 127}, t \in {1, 127}}

EncodeInputs == {[neg |-> s, mag |-> m] : s \in BOOLEAN, m \in EncodeMagnitudes}
                    \ {[neg |-> TRUE, mag |-> <<>>]}

\* The byte strings the model gives to decode: continuation bytes, then a few
\* bytes of any kind.
ByteSamples == {0, 1, 128, 255}

DecodeInputs ==
    {Rep(j, c) \o t : j \in 0..MaxCont, c \in {128, 255},
                      t \in SeqsUpTo(ByteSamples, MaxTail)}

NoInt == [neg |-> FALSE, mag |-> <<>>]
NoEnc == [err |-> "none", bytes |-> NoBytes]

VarintIdle ==
    /\ vop = "none"
    /\ vx = NoInt
    /\ venc = NoEnc
    /\ vin = NoBytes
    /\ vdec = DecodeError
    /\ vpos = 0

\* A call of varint.encode(x).
CallEncode ==
    \E x \in EncodeInputs :
        /\ vop' = "encode"
        /\ vx' = x
        /\ venc' = varint_encode(x)
        /\ vin' = NoBytes
        /\ vdec' = DecodeError
        /\ vpos' = 0
        /\ UNCHANGED <<cidVars, multiaddrVars, restVars>>

\* A call of varint.decode(b) on a bytes object.
CallDecode ==
    \E b \in DecodeInputs :
        /\ vop' = "decode"
        /\ vin' = b
        /\ vdec' = varint_decode(b)
        /\ vpos' = 0
        /\ vx' = NoInt
        /\ venc' = NoEnc
        /\ UNCHANGED <<cidVars, multiaddrVars, restVars>>

\* A call of varint.decode on the bytes the last encode call returned.
CallDecodeEncoded ==
    /\ vop = "encode"
    /\ venc.err = "none"
    /\ vop' = "roundtrip"
    /\ vin' = venc.bytes
    /\ vdec' = varint_decode(venc.bytes)
    /\ vpos' = 0
    /\ UNCHANGED <<vx, venc>>
    /\ UNCHANGED <<cidVars, multiaddrVars, restVars>>

\* The bytes that follow a varint in a buffer or in a stream.
Tails == SeqsUpTo(ByteSamples, MaxTail)

\* A call of varint.decode_raw on a bytes object that starts with the bytes
\* the last encode call returned.
CallDecodeRaw ==
    /\ vop = "encode"
    /\ venc.err = "none"
    /\ \E tail \in Tails :
        /\ vop' = "decode_raw"
        /\ vin' = venc.bytes \o tail
        /\ vdec' = varint_decode_raw(venc.bytes \o tail)
        /\ vpos' = 0
        /\ UNCHANGED <<vx, venc>>
        /\ UNCHANGED <<cidVars, multiaddrVars, restVars>>

\* A call of varint.decode on a new stream that starts with the bytes the
\* last encode call returned.
CallDecodeStream ==
    /\ vop = "encode"
    /\ venc.err = "none"
    /\ \E tail \in Tails :
        LET r == varint_decode_stream(venc.bytes \o tail, 0)
        IN  /\ vop' = "decode_stream"
            /\ vin' = venc.bytes \o tail
            /\ vdec' = r.out
            /\ vpos' = r.pos
            /\ UNCHANGED <<vx, venc>>
            /\ UNCHANGED <<cidVars, multiaddrVars, restVars>>

\* A call of varint.decode_raw on a new stream that starts with the bytes the
\* last encode call returned.
CallDecodeRawStream ==
    /\ vop = "encode"
    /\ venc.err = "none"
    /\ \E tail \in Tails :
        LET r == varint_decode_raw_stream(venc.bytes \o tail, 0)
        IN  /\ vop' = "decode_raw_stream"
            /\ vin' = venc.bytes \o tail
            /\ vdec' = r.out
            /\ vpos' = r.pos
            /\ UNCHANGED <<vx, venc>>
            /\ UNCHANGED <<cidVars, multiaddrVars, restVars>>

NextVarint == CallEncode \/ CallDecode \/ CallDecodeEncoded

\* The calls of encode followed by a partial decoding of its result.
NextVarintRaw ==
    \/ CallEncode
    \/ CallDecodeRaw
    \/ CallDecodeStream
    \/ CallDecodeRawStream

\* --------------------------------------------------- raw base-N encodings
\* Text is a sequence of code points; the alphabets are those of the `bases`
\* package the library delegates to.

\* "123456789ABCDEFGHJKLMNPQRSTUVWXYZabcdefghijkmnopqrstuvwxyz"
base58btc_alphabet ==
    <<49, 50, 51, 52, 53, 54, 55, 56, 57, 65, 66, 67, 68, 69, 70, 71, 72,
    74, 75, 76, 77, 78, 80, 81, 82, 83, 84, 85, 86, 87, 88, 89, 90, 97, 98,
    99, 100, 101, 102, 103, 104, 105, 106, 107, 109, 110, 111, 112, 113,
    114, 115, 116, 117, 118, 119, 120, 121, 122>>

\* "abcdefghijklmnopqrstuvwxyz234567" (RFC 4648, lower case)
base32_alphabet ==
    <<97, 98, 99, 100, 101, 102, 103, 104, 105, 106, 107, 108, 109, 110,
    111, 112, 113, 114, 115, 116, 117, 118, 119, 120, 121, 122, 50, 51, 52,
    53, 54, 55>>

\* "0123456789abcdef"
base16_alphabet ==
    <<48, 49, 50, 51, 52, 53, 54, 55, 56, 57, 97, 98, 99, 100, 101, 102>>

\* 2^n
RECURSIVE Pow2(_)
Pow2(n) == IF n = 0 THEN 1 ELSE 2 * Pow2(n - 1)

\* The position of character c in an alphabet, or 0.
IndexIn(alphabet, c) ==
    IF \E i \in 1..Len(alphabet) : alphabet[i] = c
    THEN CHOOSE i \in 1..Len(alphabet) : alphabet[i] = c
    ELSE 0

\* Bit k (0-based, most significant first) of a sequence of w-bit groups;
\* 0 beyond its end.
BitAt(groups, w, k) ==
    IF k \div w + 1 > Len(groups) THEN 0
    ELSE (groups[k \div w + 1] \div Pow2(w - 1 - (k % w))) % 2

\* The value of the n bits from bit k on.
BitsValue(groups, w, k, n) ==
    LET RECURSIVE Sum(_)
        Sum(j) == IF j = n THEN 0
                  ELSE BitAt(groups, w, k + j) * Pow2(n - 1 - j) + Sum(j + 1)
    IN  Sum(0)

\* A power-of-two base without padding (base16, base32): the bits of the
\* bytes in groups of w, the last group filled with zero bits.
fixchar_encode(b, w, alphabet) ==
    LET nchars == (8 * Len(b) + w - 1) \div w
    IN  [i \in 1..nchars |-> alphabet[BitsValue(b, 8, w * (i - 1), w) + 1]]

\* Its decoder: every character in the alphabet, a whole number of bytes
\* plus fewer than w pad bits, and the pad bits zero.
fixchar_decode(s, w, alphabet) ==
    LET vals == [i \in 1..Len(s) |-> IndexIn(alphabet, s[i]) - 1]
        nbytes == (w * Len(s)) \div 8
        npad == w * Len(s) - 8 * nbytes
    IN  IF \E i \in 1..Len(s) : vals[i] < 0
        THEN [err |-> "bases.DecodingError", bytes |-> <<>>]
        ELSE IF npad >= w \/ BitsValue(vals, w, 8 * nbytes, npad) # 0
        THEN [err |-> "bases.DecodingError", bytes |-> <<>>]
        ELSE [err |-> "none",
              bytes |-> [i \in 1..nbytes |-> BitsValue(vals, w, 8 * (i - 1), 8)]]

\* The number of leading elements of q equal to z.
RECURSIVE LeadingCount(_, _)
LeadingCount(q, z) ==
    IF q # <<>> /\ Head(q) = z THEN 1 + LeadingCount(Tail(q), z) ELSE 0

\* q without its leading zeros.
StripZeros(q) == SubSeq(q, LeadingCount(q, 0) + 1, Len(q))

\* Long division of a big-endian number in base `from` by d, digit by digit:
\* the quotient (same length) and the remainder.
RECURSIVE LongDiv(_, _, _, _, _)
LongDiv(num, from, d, q, carry) ==
    IF Len(q) = Len(num) THEN [q |-> q, r |-> carry]
    ELSE LongDiv(num, from, d,
                 Append(q, (carry * from + num[Len(q) + 1]) \div d),
                 (carry * from + num[Len(q) + 1]) % d)

\* The digits in base `to` (big-endian, no leading zeros) of a big-endian
\* number in base `from`.
RECURSIVE ConvertBase(_, _, _)
ConvertBase(num, from, to) ==
    LET n == StripZeros(num)
    IN  IF n = <<>> THEN <<>>
        ELSE LET dm == LongDiv(n, from, to, <<>>, 0)
             IN  Append(ConvertBase(dm.q, from, to), dm.r)

\* base58btc.encode: a leading zero byte is a leading "1", the rest is the
\* number in base 58.
base58btc_encode(b) ==
    LET nz == LeadingCount(b, 0)
        digits == ConvertBase(b, 256, 58)
    IN  Rep(nz, base58btc_alphabet[1])
            \o [i \in 1..Len(digits) |-> base58btc_alphabet[digits[i] + 1]]

\* base58btc.decode
base58btc_decode(s) ==
    LET vals == [i \in 1..Len(s) |-> IndexIn(base58btc_alphabet, s[i]) - 1]
    IN  IF \E i \in 1..Len(s) : vals[i] < 0
        THEN [err |-> "bases.DecodingError", bytes |-> <<>>]
        ELSE [err |-> "none",
              bytes |-> Rep(LeadingCount(vals, 0), 0) \o ConvertBase(vals, 58, 256)]

\* _proquint_consonants and _proquint_vowels
proquint_consonants == <<98, 100, 102, 103, 104, 106, 107, 108, 109, 110, 112, 114, 115, 116, 118, 122>>
proquint_vowels == <<97, 105, 111, 117>>

\* The characters of a block without the two pad bits of a last single byte.
proquint_char_block_NoPad(byte_block) ==
    LET i == IF Len(byte_block) = 2 THEN 256 * byte_block[1] + byte_block[2]
             ELSE byte_block[1]
    IN  IF Len(byte_block) = 2
        THEN <<proquint_consonants[((i \div 4096) % 16) + 1],
               proquint_vowels[((i \div 1024) % 4) + 1],
               proquint_consonants[((i \div 64) % 16) + 1],
               proquint_vowels[((i \div 16) % 4) + 1],
               proquint_consonants[(i % 16) + 1]>>
        ELSE <<proquint_consonants[((i \div 64) % 16) + 1],
               proquint_vowels[((i \div 16) % 4) + 1],
               proquint_consonants[(i % 16) + 1]>>

\* The characters of a block of one or two bytes, in proquint_raw_encoder
proquint_char_block(byte_block) ==
    LET consonants == proquint_consonants
        vowels == proquint_vowels
    IN  IF Len(byte_block) = 2
        THEN LET i == 256 * byte_block[1] + byte_block[2]
                 c2 == i % 16
                 v1 == (i \div 16) % 4
                 c1 == (i \div 64) % 16
                 v0 == (i \div 1024) % 4
                 c0 == (i \div 4096) % 16
             IN  <<consonants[c0 + 1], vowels[v0 + 1], consonants[c1 + 1],
                   vowels[v1 + 1], consonants[c2 + 1]>>
        ELSE LET i == byte_block[1] * 4
                 c1 == i % 16
                 v0 == (i \div 16) % 4
                 c0 == (i \div 64) % 16
             IN  <<consonants[c0 + 1], vowels[v0 + 1], consonants[c1 + 1]>>

\* "-".join(char_blocks) for the blocks of b[idx: idx+2], idx in steps of 2
RECURSIVE proquint_char_blocks(_)
proquint_char_blocks(b) ==
    IF Len(b) <= 2 THEN proquint_char_block(b)
    ELSE proquint_char_block(SubSeq(b, 1, 2)) \o <<45>>
             \o proquint_char_blocks(SubSeq(b, 3, Len(b)))

\* proquint_raw_encoder(b)
proquint_raw_encoder(b) ==
    [err |-> "none",
     str |-> <<114, 111, 45>>                                     \* "ro-"
                 \o (IF b = <<>> THEN <<>> ELSE proquint_char_blocks(b))]

\* The bytes of a sequence of bits, 8 bits a byte: i.to_bytes(nbytes, "big")
\* of the integer i that the decoder builds, which it holds here as its bits
BitsToBytes(bits) ==
    [k \in 1..(Len(bits) \div 8) |->
        128 * bits[8 * k - 7] + 64 * bits[8 * k - 6] + 32 * bits[8 * k - 5]
            + 16 * bits[8 * k - 4] + 8 * bits[8 * k - 3] + 4 * bits[8 * k - 2]
            + 2 * bits[8 * k - 1] + bits[8 * k]]

\* The loop of proquint_raw_decoder over the characters of s, idx counting
\* from 0: the error of the first character that is not the one expected, or
\* the bits of i. The character at idx % 6 = 5 is the separator; the others
\* shift i by 4 bits for a consonant (idx even) and by 2 bits for a vowel, so
\* that a block of five characters makes 16 bits of i, and the three
\* characters of a last short block make 10.
proquint_decode_loop(s) ==
    LET rejected(idx) ==
            LET char == s[idx + 1]
            IN  IF idx % 6 = 5 THEN char # 45
                ELSE IF idx % 2 = 0 THEN IndexIn(proquint_consonants, char) = 0
                ELSE IndexIn(proquint_vowels, char) = 0
        nblocks == (Len(s) + 1) \div 6
        nbits == 16 * nblocks + (IF Len(s) % 6 = 3 THEN 10 ELSE 0)
        \* the place in s of the character that gave the bit, and the bits
        \* of i that the character gave after it
        place_of(off) == IF off < 4 THEN <<0, 3 - off>>
                      ELSE IF off < 6 THEN <<1, 5 - off>>
                      ELSE IF off < 10 THEN <<2, 9 - off>>
                      ELSE IF off < 12 THEN <<3, 11 - off>>
                      ELSE <<4, 15 - off>>
        bit_of(p) ==
            LET pl == place_of((p - 1) % 16)
                idx == 6 * ((p - 1) \div 16) + pl[1]
                v == IF idx % 2 = 0
                     THEN IndexIn(proquint_consonants, s[idx + 1]) - 1
                     ELSE IndexIn(proquint_vowels, s[idx + 1]) - 1
            IN  (v \div (2 ^ pl[2])) % 2
    IN  IF \E idx \in 0..(Len(s) - 1) : rejected(idx)
        THEN [err |-> "binascii.Error", i |-> <<>>]
        ELSE [err |-> "none", i |-> [p \in 1..nbits |-> bit_of(p)]]

\* proquint_raw_decoder(s)
proquint_raw_decoder(s) ==
    IF Len(s) < 3 \/ SubSeq(s, 1, 3) # <<114, 111, 45>>
    THEN [err |-> "binascii.Error", bytes |-> <<>>]
    ELSE LET t == SubSeq(s, 4, Len(s))
         IN  IF Len(t) = 0 THEN [err |-> "none", bytes |-> <<>>]
             ELSE IF Len(t) % 6 \notin {3, 5}
             THEN [err |-> "binascii.Error", bytes |-> <<>>]
             ELSE With(proquint_decode_loop(t), LAMBDA r :
                 IF r.err # "none" THEN [err |-> r.err, bytes |-> <<>>]
                 ELSE IF Len(t) % 6 = 3
                 THEN IF SubSeq(r.i, Len(r.i) - 1, Len(r.i)) # <<0, 0>>
                      THEN [err |-> "binascii.Error", bytes |-> <<>>]
                      ELSE [err |-> "none",
                            bytes |-> BitsToBytes(SubSeq(r.i, 1, Len(r.i) - 2))]
                 ELSE [err |-> "none", bytes |-> BitsToBytes(r.i)])

\* str(b, "utf-8") succeeds on ASCII; a byte 0xFF never occurs in UTF-8.
\* (Multi-byte sequences are not modelled: the byte strings of the model
\* hold ASCII bytes and 0xFF only.)
identity_raw_encoder(b) ==
    IF \E i \in 1..Len(b) : b[i] >= 128
    THEN [err |-> "UnicodeDecodeError", str |-> <<>>]
    ELSE [err |-> "none", str |-> b]

\* s.encode("utf-8"), for text of ASCII characters
identity_raw_decoder(s) == [err |-> "none", bytes |-> s]

\* raw.get(name).encode(b)
raw_encode(name, b) ==
    CASE name = "identity" -> identity_raw_encoder(b)
      [] name = "base16" -> [err |-> "none", str |-> fixchar_encode(b, 4, base16_alphabet)]
      [] name = "base32" -> [err |-> "none", str |-> fixchar_encode(b, 5, base32_alphabet)]
      [] name = "base58btc" -> [err |-> "none", str |-> base58btc_encode(b)]
      [] name = "proquint" -> proquint_raw_encoder(b)

\* raw.get(name).decode(s)
raw_decode(name, s) ==
    CASE name = "identity" -> identity_raw_decoder(s)
      [] name = "base16" -> fixchar_decode(s, 4, base16_alphabet)
      [] name = "base32" -> fixchar_decode(s, 5, base32_alphabet)
      [] name = "base58btc" -> base58btc_decode(s)
      [] name = "proquint" -> proquint_raw_decoder(s)

\* -------------------------------------------------------------- registries

\* A row of the multicodec table.
Multicodec(name, tag, code) == [name |-> name, tag |-> tag, code |-> code]

\* The rows of the multicodec table that the model uses.
multicodec_rows ==
    { Multicodec("identity", "multihash", 0),
      Multicodec("ip4", "multiaddr", 4),
      Multicodec("udp", "multiaddr", 273),
      Multicodec("quic", "multiaddr", 460),
      Multicodec("sha2-256", "multihash", 18),
      Multicodec("murmur3-32", "hash", 35),
      Multicodec("raw", "ipld", 85),
      Multicodec("dag-pb", "ipld", 112),
      Multicodec("libp2p-key", "libp2p", 114) }

\* The absence of a multicodec (the result of a failed lookup).
NoCodec == Multicodec("", "", 0 - 1)

\* multicodec.get(name)
multicodec_get_name(name) ==
    IF \E m \in multicodec_rows : m.name = name
    THEN [err |-> "none", codec |-> CHOOSE m \in multicodec_rows : m.name = name]
    ELSE [err |-> "KeyError", codec |-> NoCodec]

\* multicodec.get(code=code)
multicodec_get_code(code) ==
    IF \E m \in multicodec_rows : m.code = code
    THEN [err |-> "none", codec |-> CHOOSE m \in multicodec_rows : m.code = code]
    ELSE [err |-> "KeyError", codec |-> NoCodec]

\* A row of the multibase table: the name and the code point of the prefix.
Multibase(name, code) == [name |-> name, code |-> code]

\* The rows of the multibase table that the model uses.
multibase_rows ==
    { Multibase("identity", 0),
      Multibase("base16", 102),        \* "f"
      Multibase("base32", 98),         \* "b"
      Multibase("base58btc", 122),     \* "z"
      Multibase("proquint", 112) }     \* "p"

NoBase == Multibase("", 0 - 1)

\* multibase.get(name)
multibase_get_name(name) ==
    IF \E m \in multibase_rows : m.name = name
    THEN [err |-> "none", base |-> CHOOSE m \in multibase_rows : m.name = name]
    ELSE [err |-> "KeyError", base |-> NoBase]

\* Multibase.encode(b): the prefix and the raw encoding
Multibase_encode(base, b) ==
    With(raw_encode(base.name, b), LAMBDA r :
        IF r.err # "none" THEN r
        ELSE [err |-> "none", str |-> <<base.code>> \o r.str])

\* multibase.decode_raw(s): from_str(s) and then base.decode(s)
multibase_decode_raw(s) ==
    IF Len(s) = 0
    THEN [err |-> "ValueError", base |-> NoBase, bytes |-> <<>>]
    ELSE IF ~\E m \in multibase_rows : m.code = s[1]
    THEN [err |-> "KeyError", base |-> NoBase, bytes |-> <<>>]
    ELSE With(CHOOSE m \in multibase_rows : m.code = s[1], LAMBDA base :
         With(raw_decode(base.name, Tail(s)), LAMBDA r :
             [err |-> r.err, base |-> base, bytes |-> r.bytes]))

\* ---------------------------------------------------- integers and varints

\* The magnitude (7-bit groups) of a natural number.
RECURSIVE MagOf(_)
MagOf(n) == IF n = 0 THEN <<>> ELSE <<n % 128>> \o MagOf(n \div 128)

\* A decoded integer too large for any table, size or version to equal it.
Huge == 0 - 1

\* The natural number of a magnitude below 2^28, or Huge.
RECURSIVE NatOf(_)
NatOf(mag) ==
    IF Len(mag) > 4 THEN Huge
    ELSE IF mag = <<>> THEN 0
    ELSE Head(mag) + 128 * NatOf(Tail(mag))

\* varint.encode(n) of a natural number within range
VarintBytes(n) == varint_encode([neg |-> FALSE, mag |-> MagOf(n)]).bytes

\* ---------------------------------------------------------------- multihash

\* No maximum digest size (None).
NoMax == 0 - 1

\* The hash function implementations: max_digest_size by name.
multihash_max_digest_size ==
    [name \in {"identity", "sha2-256"} |->
        IF name = "sha2-256" THEN 32 ELSE NoMax]

\* multihash.raw.exists(name)
multihash_raw_exists(name) ==
    name \in DOMAIN multihash_max_digest_size \/ name = "murmur3-32"

\* multihash.exists(code=code)
multihash_exists_code(code) ==
    /\ multicodec_get_code(code).err = "none"
    /\ multicodec_get_code(code).codec.tag = "multihash"

\* Multihash(codec), after the lookup of the codec
Multihash_new(got) ==
    IF got.err # "none" THEN [err |-> "KeyError", hashfun |-> NoCodec]
    ELSE IF got.codec.tag \notin {"multihash", "hash"}
    THEN [err |-> "ValueError", hashfun |-> NoCodec]
    ELSE IF ~multihash_raw_exists(got.codec.name)
    THEN [err |-> "KeyError", hashfun |-> NoCodec]
    ELSE [err |-> "none", hashfun |-> got.codec]

\* multihash.get(name)
multihash_get_name(name) == Multihash_new(multicodec_get_name(name))

\* multihash.get(code=code)
multihash_get_code(code) == Multihash_new(multicodec_get_code(code))

\* _validate_raw_digest_size without the comparison of the sizes.
raw_digest_size_ok_Unchecked(raw_digest, max_digest_size) == TRUE

\* _validate_raw_digest_size: whether it lets the raw digest through
raw_digest_size_ok(raw_digest, max_digest_size) ==
    ~(max_digest_size # NoMax /\ Len(raw_digest) > max_digest_size)

\* Multihash.wrap(raw_digest)
Multihash_wrap(hashfun, raw_digest) ==
    LET max == multihash_max_digest_size[hashfun.name]
    IN  IF max # NoMax /\ Len(raw_digest) > max
        THEN [err |-> "ValueError", bytes |-> <<>>]
        ELSE [err |-> "none",
              bytes |-> VarintBytes(hashfun.code)
                            \o VarintBytes(Len(raw_digest)) \o raw_digest]

\* multicodec.unwrap_raw(data) on a bytes-like object
multicodec_unwrap_raw(data) ==
    With(varint_decode_raw(data), LAMBDA r :
        IF r.err # "none"
        THEN [err |-> "ValueError", code |-> Huge, rest |-> <<>>]
        ELSE IF multicodec_get_code(NatOf(r.val)).err # "none"
        THEN [err |-> "KeyError", code |-> Huge, rest |-> <<>>]
        ELSE [err |-> "none", code |-> NatOf(r.val), rest |-> r.rest])

\* multihash.unwrap_raw(digest) on a bytes-like object
multihash_unwrap_raw(digest) ==
    LET failed(e) == [err |-> e, code |-> Huge, raw |-> <<>>]
    IN  With(multicodec_unwrap_raw(digest), LAMBDA c :
        With(varint_decode_raw(c.rest), LAMBDA sz :
            IF c.err # "none" THEN failed(c.err)
            ELSE IF ~multihash_exists_code(c.code) THEN failed("KeyError")
            ELSE IF sz.err # "none" THEN failed("ValueError")
            ELSE IF NatOf(sz.val) # Len(sz.rest) THEN failed("ValueError")
            ELSE [err |-> "none", code |-> c.code, raw |-> sz.rest]))

\* ---------------------------------------------------------------------- CID

\* A CID object: its fields and the identity (oid) of the Python object.
CIDObject(base, version, codec, hashfun, digest, oid) ==
    [base |-> base, version |-> version, codec |-> codec,
     hashfun |-> hashfun, digest |-> digest, oid |-> oid]

\* No CID object (no call has returned one).
NoCID == CIDObject(NoBase, 0 - 1, NoCodec, NoCodec, <<>>, 0)

\* The outcome of a call that returns a CID; live is the table of instances.
CIDFail(e, live) == [err |-> e, cid |-> NoCID, live |-> live]

\* The key of the table of instances.
InstanceKey(c) == <<c.base, c.version, c.codec, c.hashfun, c.digest>>

\* CID._new_instance, digest given as bytes
CID_new_instance(live, base, version, codec, hashfun, digest) ==
    LET key == <<base, version, codec, hashfun, digest>>
        oid == CHOOSE n \in 1..(Cardinality(live) + 1) :
                   \A c \in live : c.oid # n
        made == CIDObject(base, version, codec, hashfun, digest, oid)
    IN  IF version \notin {0, 1} THEN CIDFail("AssertionError", live)
        ELSE IF \E c \in live : InstanceKey(c) = key
        THEN [err |-> "none",
              cid |-> CHOOSE c \in live : InstanceKey(c) = key,
              live |-> live]
        ELSE [err |-> "none", cid |-> made, live |-> live \cup {made}]

\* _CID_validate_version: the error it raises, or "none"
CID_validate_version(version, base, codec, hashfun) ==
    IF version \in {2, 3} THEN "ValueError"
    ELSE IF version \notin {0, 1} THEN "ValueError"
    ELSE IF version = 0 /\ base.name # "base58btc" THEN "ValueError"
    ELSE IF version = 0 /\ codec.name # "dag-pb" THEN "ValueError"
    ELSE IF version = 0 /\ hashfun.name # "sha2-256" THEN "ValueError"
    ELSE "none"

\* _CID_validate_raw_digest: the error it raises, or "none"
CID_validate_raw_digest(raw_digest, hashfun) ==
    IF raw_digest_size_ok(raw_digest,
                          multihash_max_digest_size[hashfun.name])
    THEN "none" ELSE "ValueError"

\* _CID_validate_multihash_digest(digest)
CID_validate_multihash_digest(digest) ==
    LET failed(e) == [err |-> e, hashfun |-> NoCodec, raw |-> <<>>]
    IN  With(multihash_unwrap_raw(digest), LAMBDA u :
        With(multihash_get_code(u.code), LAMBDA h :
            IF u.err # "none" THEN failed(u.err)
            ELSE IF h.err # "none" THEN failed(h.err)
            ELSE IF CID_validate_raw_digest(u.raw, h.hashfun) # "none"
            THEN failed("ValueError")
            ELSE [err |-> "none", hashfun |-> h.hashfun, raw |-> u.raw]))

\* The digest argument of the constructor: multihash bytes, or a pair of
\* a hash function name and a raw digest.
DigestBytes(b) == [kind |-> "bytes", hashfun |-> "", raw |-> b]
DigestPair(name, raw) == [kind |-> "pair", hashfun |-> name, raw |-> raw]

\* The validation of the digest argument in CID.__new__: the hash function
\* and the raw digest
CID_validate_digest(digest) ==
    IF digest.kind = "bytes" THEN CID_validate_multihash_digest(digest.raw)
    ELSE With(multihash_get_name(digest.hashfun), LAMBDA g :
             IF g.err # "none"
             THEN [err |-> g.err, hashfun |-> NoCodec, raw |-> <<>>]
             ELSE [err |-> CID_validate_raw_digest(digest.raw, g.hashfun),
                   hashfun |-> g.hashfun, raw |-> digest.raw])

\* CID(base, version, codec, digest)
CID_new(live, base, version, codec, digest) ==
    With(multibase_get_name(base), LAMBDA mb :
    With(multicodec_get_name(codec), LAMBDA mc :
    With(CID_validate_digest(digest), LAMBDA h :
        IF mb.err # "none" THEN CIDFail(mb.err, live)
        ELSE IF mc.err # "none" THEN CIDFail(mc.err, live)
        ELSE IF h.err # "none" THEN CIDFail(h.err, live)
        ELSE IF CID_validate_version(version, mb.base, mc.codec,
                                     h.hashfun) # "none"
        THEN CIDFail("ValueError", live)
        ELSE IF digest.kind = "bytes"
        THEN CID_new_instance(live, mb.base, version, mc.codec, h.hashfun,
                              digest.raw)
        ELSE With(Multihash_wrap(h.hashfun, h.raw), LAMBDA w :
                 IF w.err # "none" THEN CIDFail(w.err, live)
                 ELSE CID_new_instance(live, mb.base, version, mc.codec,
                                       h.hashfun, w.bytes)))))


\* CID.__bytes__
CID_bytes(c) ==
    IF c.version = 0 THEN c.digest
    ELSE VarintBytes(c.version) \o VarintBytes(c.codec.code) \o c.digest

\* CID.encode(base); base is <<>> for None or <<name>>
CID_encode(c, base) ==
    IF c.version = 0
    THEN IF base # <<>> THEN [err |-> "ValueError", str |-> <<>>]
         ELSE [err |-> "none", str |-> base58btc_encode(CID_bytes(c))]
    ELSE IF base = <<>> THEN Multibase_encode(c.base, CID_bytes(c))
    ELSE IF multibase_get_name(base[1]).err # "none"
    THEN [err |-> "KeyError", str |-> <<>>]
    ELSE Multibase_encode(multibase_get_name(base[1]).base, CID_bytes(c))

\* CID.set(base, version, codec); each argument is <<>> for None or <<value>>
CID_set(live, c, base, version, codec) ==
    LET newbase == base # <<>> /\ base[1] # c.base.name
        newcodec == codec # <<>> /\ codec[1] # c.codec.name
        newversion == version # <<>> /\ version[1] # c.version
    IN  With(IF newbase THEN multibase_get_name(base[1])
             ELSE [err |-> "none", base |-> c.base], LAMBDA mb :
        With(IF newcodec THEN multicodec_get_name(codec[1])
             ELSE [err |-> "none", codec |-> c.codec], LAMBDA mc :
            IF mb.err # "none" THEN CIDFail(mb.err, live)
            ELSE IF mc.err # "none" THEN CIDFail(mc.err, live)
            ELSE IF newversion
                    /\ CID_validate_version(version[1], mb.base, mc.codec,
                                            c.hashfun) # "none"
            THEN CIDFail("ValueError", live)
            ELSE CID_new_instance(live, mb.base,
                                  IF newversion THEN version[1] ELSE c.version,
                                  mc.codec, c.hashfun, c.digest)))

\* The end of CID.decode: the multicodec and the multihash by their codes,
\* and the instance
CID_decode_digest(live, mb, v, mc_code, digest) ==
    With(multicodec_get_code(mc_code), LAMBDA mc :
    With(multihash_unwrap_raw(digest), LAMBDA u :
    With(multihash_get_code(u.code), LAMBDA mh :
        IF mc.err # "none" THEN CIDFail(mc.err, live)
        ELSE IF u.err # "none" THEN CIDFail(u.err, live)
        ELSE IF mh.err # "none" THEN CIDFail(mh.err, live)
        ELSE CID_new_instance(live, mb, v, mc.codec, mh.hashfun, digest))))

\* CID.decode(cid) on bytes, mb being the multibase of the result
CID_decode_binary(live, b, mb) ==
    IF Len(b) = 34 /\ b[1] = 18 /\ b[2] = 32
    THEN CID_decode_digest(live, mb, 0, 112, b)
    ELSE With(varint_decode_raw(b), LAMBDA v :
         With(multicodec_unwrap_raw(v.rest), LAMBDA mc :
             IF v.err # "none" THEN CIDFail(v.err, live)
             ELSE IF NatOf(v.val) = 0 THEN CIDFail("ValueError", live)
             ELSE IF NatOf(v.val) \in {2, 3} THEN CIDFail("ValueError", live)
             ELSE IF NatOf(v.val) # 1 THEN CIDFail("ValueError", live)
             ELSE IF mc.err # "none" THEN CIDFail(mc.err, live)
             ELSE CID_decode_digest(live, mb, 1, mc.code, mc.rest)))

\* CID.decode(cid) on bytes
CID_decode_bytes(live, b) ==
    CID_decode_binary(live, b, multibase_get_name("base58btc").base)

\* _binary_cid_from_str(cid) without the rejection of a multibase payload
\* that starts with 0x12
binary_cid_from_str_Unchecked(s) ==
    IF Len(s) = 46 /\ s[1] = 81 /\ s[2] = 109
    THEN With(base58btc_decode(s), LAMBDA v0 :
             [err |-> v0.err, bytes |-> v0.bytes,
              base |-> multibase_get_name("base58btc").base])
    ELSE With(multibase_decode_raw(s), LAMBDA r :
             IF r.err # "none"
             THEN [err |-> r.err, bytes |-> <<>>, base |-> NoBase]
             ELSE IF r.bytes = <<>>
             THEN [err |-> "IndexError", bytes |-> <<>>, base |-> NoBase]
             ELSE [err |-> "none", bytes |-> r.bytes, base |-> r.base])

\* _binary_cid_from_str(cid)
binary_cid_from_str(s) ==
    IF Len(s) = 46 /\ s[1] = 81 /\ s[2] = 109       \* "Qm"
    THEN With(base58btc_decode(s), LAMBDA v0 :
             [err |-> v0.err, bytes |-> v0.bytes,
              base |-> multibase_get_name("base58btc").base])
    ELSE With(multibase_decode_raw(s), LAMBDA r :
             IF r.err # "none"
             THEN [err |-> r.err, bytes |-> <<>>, base |-> NoBase]
             ELSE IF r.bytes = <<>>
             THEN [err |-> "IndexError", bytes |-> <<>>, base |-> NoBase]
             ELSE IF r.bytes[1] = 18
             THEN [err |-> "ValueError", bytes |-> <<>>, base |-> NoBase]
             ELSE [err |-> "none", bytes |-> r.bytes, base |-> r.base])

\* CID.decode(cid) on a string
CID_decode_str(live, s) ==
    With(binary_cid_from_str(s), LAMBDA r :
        IF r.err # "none" THEN CIDFail(r.err, live)
        ELSE CID_decode_binary(live, r.bytes, r.base))


\* hashlib's sha256, of which only the size of the digest and its being a
\* function of the data are modelled.
sha2_256(data) == Rep(32, (Len(data) + 7) % 256)

\* CID.peer_id(pk_bytes)
CID_peer_id(live, pk_bytes) ==
    LET mh == multihash_get_name(IF Len(pk_bytes) <= 42 THEN "identity"
                                 ELSE "sha2-256").hashfun
        raw == IF Len(pk_bytes) <= 42 THEN pk_bytes ELSE sha2_256(pk_bytes)
    IN  CID_new_instance(live, multibase_get_name("base32").base, 1,
                         multicodec_get_code(114).codec, mh,
                         Multihash_wrap(mh, raw).bytes)

\* A tuple that holds the multibase too.
CID_as_tuple_WithBase(c) == <<"CID", c.base, c.version, c.codec, c.digest>>

\* CID._as_tuple
CID_as_tuple(c) == <<"CID", c.version, c.codec, c.digest>>

\* CID.__eq__: the same object, or equal tuples
CID_eq(a, b) == a.oid = b.oid \/ CID_as_tuple(a) = CID_as_tuple(b)

\* CID.__hash__: the hash of the tuple, which the tuple itself stands for
CID_hash(c) == CID_as_tuple(c)

\* The samples of raw digests and of public keys: Rep(n, f) for these sizes
\* and fillers (the byte 255 occurs in no UTF-8 text).
DigestSizes == {0, 16, 32, 33}
DigestFills == {1, 255}
RawDigests == {Rep(n, f) : n \in DigestSizes, f \in DigestFills}
PublicKeys == {Rep(n, 1) : n \in {0, 32, 42, 43}}

\* The arguments the model gives to the constructor.
BaseNames == {"identity", "base16", "base32", "base58btc", "base99"}
VersionArgs == {0, 1, 2, 4}
CodecNames == {"raw", "dag-pb", "nocodec"}
HashNames == {"sha2-256", "identity", "raw", "nohash"}
DigestArgs ==
    {DigestPair(h, r) : h \in HashNames, r \in RawDigests} \cup
    {DigestBytes(<<c, z>> \o r) : c \in {18, 0, 85}, z \in {16, 32},
                                  r \in {Rep(16, 1), Rep(32, 1)}}

\* The bytes the model gives to decode: a version and a codec, or none,
\* followed by a multihash of which the size byte may be wrong.
BinaryCIDs ==
    {pre \o mh :
        pre \in {<<>>, <<0>>, <<1>>, <<2>>, <<18>>, <<128>>,
                 <<1, 85>>, <<1, 112>>, <<1, 127>>},
        mh \in {<<>>} \cup
               {<<c, z>> \o r : c \in {18, 0, 85}, z \in {16, 32, 33},
                                r \in RawDigests}}

\* The strings the model gives to decode: encodings of a few of these bytes,
\* with and without a multibase prefix, and malformed strings.
EncodedCIDs ==
    LET payloads == {<<>>, <<18, 32>> \o Rep(32, 1), <<18, 16>> \o Rep(16, 1),
                     <<1, 85, 18, 32>> \o Rep(32, 1), <<1, 85, 0, 0>>,
                     <<1, 85, 18, 33>> \o Rep(33, 1)}
    IN  {base58btc_encode(b) : b \in payloads} \cup
        {r.str : r \in {Multibase_encode(m, b) :
                            m \in multibase_rows, b \in payloads}} \cup
        {<<>>, <<122, 48>>, <<120, 49>>}          \* "", "z0", "x1"

\* The live CID objects: those the program still refers to.
Live(a, b) == {a, b} \ {NoCID}

CidIdle ==
    /\ cop = "none"
    /\ cid = NoCID
    /\ cother = NoCID
    /\ cerr = "none"
    /\ cin = <<>>
    /\ instances = {}

\* cid = CID(base, version, codec, digest); the program holds no CID yet
NewCID ==
    /\ cop = "none"
    /\ \E b \in BaseNames, v \in VersionArgs, c \in CodecNames, d \in DigestArgs :
        LET r == CID_new(instances, b, v, c, d)
        IN  /\ cop' = "new"
            /\ cin' = <<>>
            /\ cerr' = r.err
            /\ cid' = r.cid
            /\ cother' = NoCID
            /\ instances' = Live(r.cid, NoCID)
            /\ UNCHANGED <<varintVars, multiaddrVars, restVars>>

\* cid = CID.peer_id(pk_bytes)
PeerId ==
    /\ cop = "none"
    /\ \E pk \in PublicKeys :
        LET r == CID_peer_id(instances, pk)
        IN  /\ cop' = "peer_id"
            /\ cin' = <<>>
            /\ cerr' = r.err
            /\ cid' = r.cid
            /\ cother' = NoCID
            /\ instances' = Live(r.cid, NoCID)
            /\ UNCHANGED <<varintVars, multiaddrVars, restVars>>

\* cid = CID.decode(b) on bytes
DecodeBinary ==
    /\ cop = "none"
    /\ \E b \in BinaryCIDs :
        LET r == CID_decode_bytes(instances, b)
        IN  /\ cop' = "decode"
            /\ cin' = b
            /\ cerr' = r.err
            /\ cid' = r.cid
            /\ cother' = NoCID
            /\ instances' = Live(r.cid, NoCID)
            /\ UNCHANGED <<varintVars, multiaddrVars, restVars>>

\* cid = CID.decode(s) on a string
DecodeEncoded ==
    /\ cop = "none"
    /\ \E s \in EncodedCIDs :
        LET r == CID_decode_str(instances, s)
        IN  /\ cop' = "decode"
            /\ cin' = s
            /\ cerr' = r.err
            /\ cid' = r.cid
            /\ cother' = NoCID
            /\ instances' = Live(r.cid, NoCID)
            /\ UNCHANGED <<varintVars, multiaddrVars, restVars>>

\* Whether the program holds a CID and nothing derived from it.
HoldsCID == cop \in {"new", "peer_id", "decode", "keep"} /\ cid # NoCID

\* other = cid.set(base, version, codec)
SetCID ==
    /\ HoldsCID
    /\ \E b \in {<<>>, <<"base32">>, <<"base58btc">>, <<"base99">>},
          v \in {<<>>, <<0>>, <<1>>, <<2>>},
          c \in {<<>>} \cup {<<n>> : n \in CodecNames} :
        LET r == CID_set(instances, cid, b, v, c)
        IN  /\ cop' = "set"
            /\ cerr' = r.err
            /\ cother' = r.cid
            /\ instances' = Live(cid, r.cid)
            /\ UNCHANGED <<cid, cin>>
            /\ UNCHANGED <<varintVars, multiaddrVars, restVars>>

\* other = CID(...), a second CID next to the one the program holds
OtherCID ==
    /\ HoldsCID
    /\ \E b \in {cid.base.name, "base32"}, v \in {cid.version, 1},
          c \in {cid.codec.name, "raw"},
          d \in {DigestPair("sha2-256", Rep(32, 1)),
                 DigestPair("sha2-256", Rep(32, 255)),
                 DigestPair("identity", Rep(16, 1))} :
        LET r == CID_new(instances, b, v, c, d)
        IN  /\ cop' = "other"
            /\ cerr' = r.err
            /\ cother' = r.cid
            /\ instances' = Live(cid, r.cid)
            /\ UNCHANGED <<cid, cin>>
            /\ UNCHANGED <<varintVars, multiaddrVars, restVars>>

\* other = CID.decode(cid.encode())
RoundTripStr ==
    LET s == CID_encode(cid, <<>>)
        r == IF s.err # "none" THEN CIDFail(s.err, instances)
             ELSE CID_decode_str(instances, s.str)
    IN  /\ HoldsCID
        /\ cop' = "roundtrip_str"
        /\ cerr' = r.err
        /\ cother' = r.cid
        /\ instances' = Live(cid, r.cid)
        /\ UNCHANGED <<cid, cin>>
        /\ UNCHANGED <<varintVars, multiaddrVars, restVars>>

\* other = CID.decode(bytes(cid)).set(base=cid.base)
RoundTripBytes ==
    LET d == CID_decode_bytes(instances, CID_bytes(cid))
        r == IF d.err # "none" THEN d
             ELSE CID_set(d.live, d.cid, <<cid.base.name>>, <<>>, <<>>)
    IN  /\ HoldsCID
        /\ cop' = "roundtrip_bytes"
        /\ cerr' = r.err
        /\ cother' = r.cid
        /\ instances' = Live(cid, r.cid)
        /\ UNCHANGED <<cid, cin>>
        /\ UNCHANGED <<varintVars, multiaddrVars, restVars>>

\* cid = other: the program keeps the CID that set returned and lets go of
\* the first
Keep ==
    /\ cop = "set"
    /\ cother # NoCID
    /\ cop' = "keep"
    /\ cid' = cother
    /\ cother' = NoCID
    /\ cerr' = "none"
    /\ instances' = Live(cother, NoCID)
    /\ cin' = <<>>
    /\ UNCHANGED <<varintVars, multiaddrVars, restVars>>

\* del cid, other
Drop ==
    /\ cop # "none"
    /\ cop' = "none"
    /\ cid' = NoCID
    /\ cother' = NoCID
    /\ cerr' = "none"
    /\ cin' = <<>>
    /\ instances' = {}
    /\ UNCHANGED <<varintVars, multiaddrVars, restVars>>

NextCID ==
    \/ NewCID \/ PeerId \/ DecodeBinary \/ DecodeEncoded
    \/ SetCID \/ OtherCID \/ RoundTripStr \/ RoundTripBytes
    \/ Keep \/ Drop

\* ---------------------------------------------------------------- multiaddr

\* str.split(sep)
RECURSIVE Split(_, _)
Split(s, sep) ==
    IF \E i \in 1..Len(s) : s[i] = sep
    THEN LET i == CHOOSE i \in 1..Len(s) :
                      s[i] = sep /\ \A j \in 1..(i - 1) : s[j] # sep
         IN  <<SubSeq(s, 1, i - 1)>> \o Split(SubSeq(s, i + 1, Len(s)), sep)
    ELSE <<s>>

\* str.isdigit() on ASCII text
IsDigits(s) == s # <<>> /\ \A i \in 1..Len(s) : s[i] \in 48..57

\* int(s) of decimal digits
RECURSIVE IntOf(_)
IntOf(s) ==
    IF s = <<>> THEN 0
    ELSE 10 * IntOf(SubSeq(s, 1, Len(s) - 1)) + (s[Len(s)] - 48)

\* str(n) of a natural number
RECURSIVE StrOf(_)
StrOf(n) == IF n < 10 THEN <<48 + n>> ELSE StrOf(n \div 10) \o <<48 + (n % 10)>>

\* The outcome of a raw encoder or decoder that raised.
AddrFail == [err |-> "MultiaddrValueError", str |-> <<>>, bytes |-> <<>>]

\* Whether an exception of the class e is a ValueError: the class itself,
\* multiaddr.err.MultiaddrValueError, ipaddress.AddressValueError
IsValueError(e) ==
    e \in {"ValueError", "MultiaddrValueError", "AddressValueError"}

\* tcp_udp_encoder(s)
tcp_udp_encoder(s) ==
    IF ~IsDigits(s) THEN AddrFail
    ELSE IF ~(IntOf(s) < 65536) THEN AddrFail
    ELSE [err |-> "none", str |-> s,
          bytes |-> <<IntOf(s) \div 256, IntOf(s) % 256>>]

\* tcp_udp_decoder(b)
tcp_udp_decoder(b) ==
    IF Len(b) # 2 THEN AddrFail
    ELSE [err |-> "none", str |-> StrOf(256 * b[1] + b[2]), bytes |-> b]

\* ip4_encoder(s): IPv4Address(s).packed
ip4_encoder(s) ==
    LET octets == Split(s, 46)
        ok(o) == /\ IsDigits(o)
                 /\ Len(o) <= 3
                 /\ Len(o) > 1 => o[1] # 48
                 /\ IntOf(o) <= 255
    IN  IF Len(octets) # 4 \/ \E i \in 1..Len(octets) : ~ok(octets[i])
        THEN AddrFail
        ELSE [err |-> "none", str |-> s,
              bytes |-> [i \in 1..4 |-> IntOf(octets[i])]]

\* ip4_decoder(b): str(IPv4Address(b))
ip4_decoder(b) ==
    IF Len(b) # 4 THEN AddrFail
    ELSE [err |-> "none",
          str |-> StrOf(b[1]) \o <<46>> \o StrOf(b[2]) \o <<46>>
                      \o StrOf(b[3]) \o <<46>> \o StrOf(b[4]),
          bytes |-> b]

\* The implementations of the protocols: the address size by name.
proto_impl == [name \in {"ip4", "udp", "quic"} |->
                  IF name = "ip4" THEN 4 ELSE IF name = "udp" THEN 2 ELSE 0]

\* The names of the multicodecs that occur in the texts of the model.
ProtoText ==
    [name \in {"ip4", "udp", "quic", "raw"} |->
        CASE name = "ip4" -> <<105, 112, 52>>
          [] name = "udp" -> <<117, 100, 112>>
          [] name = "quic" -> <<113, 117, 105, 99>>
          [] name = "raw" -> <<114, 97, 119>>]

\* Proto(codec), after the lookup of the codec
Proto_new(got) ==
    IF got.err # "none" THEN [err |-> "KeyError", proto |-> NoCodec]
    ELSE IF got.codec.tag # "multiaddr"
    THEN [err |-> "ValueError", proto |-> NoCodec]
    ELSE IF got.codec.name \notin DOMAIN proto_impl
    THEN [err |-> "KeyError", proto |-> NoCodec]
    ELSE [err |-> "none", proto |-> got.codec]

\* Proto(name) for the text of a name
Proto_of_text(t) ==
    IF \E n \in DOMAIN ProtoText : ProtoText[n] = t
    THEN Proto_new(multicodec_get_name(
             CHOOSE n \in DOMAIN ProtoText : ProtoText[n] = t))
    ELSE [err |-> "KeyError", proto |-> NoCodec]

\* An address value: bytes, or a string.
BytesValue(b) == [isbytes |-> TRUE, v |-> b]
StrValue(t) == [isbytes |-> FALSE, v |-> t]

\* Proto.validate(addr_value)
Proto_validate(proto, value) ==
    IF proto_impl[proto.name] = 0
    THEN [err |-> "AddressValueError", str |-> <<>>, bytes |-> <<>>]
    ELSE IF value.isbytes
    THEN IF proto.name = "ip4" THEN ip4_decoder(value.v)
         ELSE tcp_udp_decoder(value.v)
    ELSE IF proto.name = "ip4" THEN ip4_encoder(value.v)
         ELSE tcp_udp_encoder(value.v)

\* Proto.is_addr_valid(addr_value): whether it raised, and what it returned
Proto_is_addr_valid(proto, value) ==
    With(Proto_validate(proto, value), LAMBDA r :
        IF r.err = "none" THEN [err |-> "none", valid |-> TRUE]
        ELSE IF r.err = "AddressValueError"
        THEN [err |-> "none", valid |-> FALSE]
        ELSE [err |-> r.err, valid |-> FALSE])

\* Proto.__contains__(value)
Proto_contains(proto, value) == Proto_is_addr_valid(proto, value)

\* A segment of a multiaddr: a Proto, or an Addr with its value.
Segment(isaddr, proto, value, value_bytes) ==
    [isaddr |-> isaddr, proto |-> proto,
     value |-> value, value_bytes |-> value_bytes]

\* Addr(proto, value)
Addr_new(proto, value) ==
    With(Proto_validate(proto, value), LAMBDA r :
        [err |-> r.err, seg |-> Segment(TRUE, proto, r.str, r.bytes)])

\* No Multiaddr (no call has returned one).
NoMultiaddr == [addrs |-> <<>>, is_incomplete |-> TRUE]

\* The outcome of a call that returns a Multiaddr and raised.
MultiaddrFail(e) == [err |-> e, ma |-> NoMultiaddr]

\* Multiaddr(*addrs) without the check that no protocol appears twice.
Multiaddr_new_Unchecked(addrs) ==
    LET l == Len(addrs)
        bare(i) == ~addrs[i].isaddr /\ proto_impl[addrs[i].proto.name] # 0
    IN  IF \E i \in 1..(l - 1) : bare(i) THEN MultiaddrFail("ValueError")
        ELSE [err |-> "none",
              ma |-> [addrs |-> addrs, is_incomplete |-> l > 0 /\ bare(l)]]

\* Multiaddr(*addrs)
Multiaddr_new(addrs) ==
    LET l == Len(addrs)
        bare(i) == ~addrs[i].isaddr /\ proto_impl[addrs[i].proto.name] # 0
    IN  IF \E i \in 1..(l - 1) : bare(i) THEN MultiaddrFail("ValueError")
        ELSE IF \E i, j \in 1..l : i < j /\ addrs[i].proto = addrs[j].proto
        THEN MultiaddrFail("ValueError")
        ELSE [err |-> "none",
              ma |-> [addrs |-> addrs, is_incomplete |-> l > 0 /\ bare(l)]]

\* Addr.__bytes__ and Proto.__bytes__, of a segment of a complete Multiaddr
Segment_bytes(a) ==
    IF a.isaddr THEN VarintBytes(a.proto.code) \o a.value_bytes
    ELSE VarintBytes(a.proto.code)

\* Addr.__str__ and Proto.__str__
Segment_str(a) ==
    IF a.isaddr THEN <<47>> \o ProtoText[a.proto.name] \o <<47>> \o a.value
    ELSE <<47>> \o ProtoText[a.proto.name]

\* The concatenation of f(a) for the segments a.
RECURSIVE Joined(_, _)
Joined(f(_), addrs) ==
    IF addrs = <<>> THEN <<>> ELSE f(Head(addrs)) \o Joined(f, Tail(addrs))

\* Multiaddr.__bytes__
Multiaddr_bytes(m) ==
    IF m.is_incomplete THEN [err |-> "ValueError", bytes |-> <<>>]
    ELSE [err |-> "none", bytes |-> Joined(Segment_bytes, m.addrs)]

\* Multiaddr.__str__
Multiaddr_str(m) == Joined(Segment_str, m.addrs)

\* The right operand of /: an address value, a Proto or an Addr, a Multiaddr.
ValueOperand(value) ==
    [kind |-> "value", value |-> value, addrs |-> <<>>]
SegmentOperand(seg) ==
    [kind |-> "segment", value |-> StrValue(<<>>), addrs |-> <<seg>>]
MultiaddrOperand(m) ==
    [kind |-> "multiaddr", value |-> StrValue(<<>>), addrs |-> m.addrs]

\* An int as an address value: Proto.__truediv__ makes its str of it.
IntValue(n) == StrValue(StrOf(n))

\* Multiaddr.__truediv__(other) for a Proto, an Addr or a Multiaddr, without
\* the check that self is not incomplete.
Multiaddr_truediv_Unchecked(self, other) ==
    IF other.kind = "value"
    THEN IF ~self.is_incomplete THEN MultiaddrFail("ValueError")
         ELSE With(Addr_new(self.addrs[Len(self.addrs)].proto, other.value),
                   LAMBDA a :
                 IF a.err # "none" THEN MultiaddrFail(a.err)
                 ELSE Multiaddr_new(
                          Append(SubSeq(self.addrs, 1, Len(self.addrs) - 1),
                                 a.seg)))
    ELSE Multiaddr_new(self.addrs \o other.addrs)

\* Multiaddr.__truediv__(other)
Multiaddr_truediv(self, other) ==
    IF other.kind = "value"
    THEN IF ~self.is_incomplete THEN MultiaddrFail("ValueError")
         ELSE With(Addr_new(self.addrs[Len(self.addrs)].proto, other.value),
                   LAMBDA a :
                 IF a.err # "none" THEN MultiaddrFail(a.err)
                 ELSE Multiaddr_new(
                          Append(SubSeq(self.addrs, 1, Len(self.addrs) - 1),
                                 a.seg)))
    ELSE IF self.is_incomplete THEN MultiaddrFail("ValueError")
    ELSE Multiaddr_new(self.addrs \o other.addrs)

\* t[start:stop:step] of a tuple, for a start and a stop that are omitted
\* (<<>>) or not negative, and a step other than 0
TupleSlice(t, start, stop, step) ==
    LET len == Len(t)
        atmost(v, m) == IF v < m THEN v ELSE m
        lo == IF step > 0
              THEN IF start = <<>> THEN 0 ELSE atmost(start[1], len)
              ELSE IF start = <<>> THEN len - 1 ELSE atmost(start[1], len - 1)
        hi == IF step > 0
              THEN IF stop = <<>> THEN len ELSE atmost(stop[1], len)
              ELSE IF stop = <<>> THEN 0 - 1 ELSE atmost(stop[1], len - 1)
        n == IF step > 0
             THEN IF hi > lo THEN ((hi - lo - 1) \div step) + 1 ELSE 0
             ELSE IF lo > hi THEN ((lo - hi - 1) \div (0 - step)) + 1 ELSE 0
    IN  [k \in 1..n |-> t[lo + (k - 1) * step + 1]]

\* Multiaddr.__getitem__(idx) for a slice
Multiaddr_getitem(self, start, stop, step) ==
    Multiaddr_new(TupleSlice(self.addrs, start, stop, step))

\* The loop of multiaddr.parse over the tokens
RECURSIVE multiaddr_parse_loop(_, _, _)
multiaddr_parse_loop(tokens, protocol, segments) ==
    IF tokens = <<>>
    THEN [err |-> "none",
          segs |-> IF protocol = NoCodec THEN segments
                   ELSE Append(segments, Segment(FALSE, protocol, <<>>, <<>>))]
    ELSE IF protocol = NoCodec
    THEN With(Proto_of_text(Head(tokens)), LAMBDA p :
             IF p.err # "none" THEN [err |-> p.err, segs |-> <<>>]
             ELSE IF proto_impl[p.proto.name] = 0
             THEN multiaddr_parse_loop(Tail(tokens), NoCodec,
                      Append(segments, Segment(FALSE, p.proto, <<>>, <<>>)))
             ELSE multiaddr_parse_loop(Tail(tokens), p.proto, segments))
    ELSE With(Addr_new(protocol, StrValue(Head(tokens))), LAMBDA a :
             IF a.err # "none" THEN [err |-> a.err, segs |-> <<>>]
             ELSE multiaddr_parse_loop(Tail(tokens), NoCodec,
                                       Append(segments, a.seg)))

\* multiaddr.parse(multiaddr_str, allow_incomplete)
multiaddr_parse(multiaddr_str, allow_incomplete) ==
    With(multiaddr_parse_loop(Tail(Split(multiaddr_str, 47)), NoCodec, <<>>),
         LAMBDA r :
    With(Multiaddr_new(r.segs), LAMBDA m :
        IF r.err # "none" THEN MultiaddrFail(r.err)
        ELSE IF m.err # "none" THEN m
        ELSE IF m.ma.is_incomplete /\ ~allow_incomplete
        THEN MultiaddrFail("ValueError")
        ELSE m))

\* The loop of multiaddr.decode over the bytes
RECURSIVE multiaddr_decode_loop(_, _, _)
multiaddr_decode_loop(b, protocol, segments) ==
    IF Len(b) = 0 THEN [err |-> "none", segs |-> segments]
    ELSE IF protocol = NoCodec
    THEN With(varint_decode_raw(b), LAMBDA c :
         With(Proto_new(multicodec_get_code(NatOf(c.val))), LAMBDA p :
             IF c.err # "none" THEN [err |-> c.err, segs |-> <<>>]
             ELSE IF p.err # "none" THEN [err |-> p.err, segs |-> <<>>]
             ELSE IF proto_impl[p.proto.name] = 0
             THEN multiaddr_decode_loop(c.rest, NoCodec,
                      Append(segments, Segment(FALSE, p.proto, <<>>, <<>>)))
             ELSE multiaddr_decode_loop(c.rest, p.proto, segments)))
    ELSE LET addr_size == proto_impl[protocol.name]
             n == IF addr_size < Len(b) THEN addr_size ELSE Len(b)
         IN  With(Addr_new(protocol, BytesValue(SubSeq(b, 1, n))), LAMBDA a :
                 IF a.err # "none" THEN [err |-> a.err, segs |-> <<>>]
                 ELSE multiaddr_decode_loop(SubSeq(b, n + 1, Len(b)), NoCodec,
                                            Append(segments, a.seg)))

\* multiaddr.decode(multiaddr_bytes)
multiaddr_decode(multiaddr_bytes) ==
    With(multiaddr_decode_loop(multiaddr_bytes, NoCodec, <<>>), LAMBDA r :
    With(Multiaddr_new(r.segs), LAMBDA m :
        IF r.err # "none" THEN MultiaddrFail(r.err)
        ELSE IF m.err # "none" THEN m
        ELSE IF m.ma.is_incomplete THEN MultiaddrFail("AssertionError")
        ELSE m))


\* Multiaddr._as_tuple: the segments by Proto._as_tuple and Addr._as_tuple
Multiaddr_as_tuple(m) ==
    [i \in DOMAIN m.addrs |->
        <<m.addrs[i].isaddr, m.addrs[i].proto, m.addrs[i].value>>]

\* Multiaddr.__eq__
Multiaddr_eq(a, b) == Multiaddr_as_tuple(a) = Multiaddr_as_tuple(b)

\* The segments the model builds multiaddrs of: a protocol name and no
\* value ("none"), a string ("str") or bytes ("bytes").
SegmentArg(name, kind, v) == [name |-> name, kind |-> kind, v |-> v]
SegmentArgs ==
    {SegmentArg(n, "none", <<>>) : n \in {"ip4", "udp", "quic", "raw"}} \cup
    {SegmentArg("ip4", "str", v) :
        v \in {<<49, 46, 50, 46, 51, 46, 52>>,                  \* 1.2.3.4
               <<49, 46, 50, 46, 51>>,                          \* 1.2.3
               <<49, 46, 50, 46, 51, 46, 50, 53, 54>>}} \cup    \* 1.2.3.256
    {SegmentArg("ip4", "bytes", v) : v \in {<<127, 0, 0, 1>>, <<127, 0, 1>>}} \cup
    {SegmentArg("udp", "str", v) :
        v \in {<<56, 48>>, <<48, 48, 56, 48>>,                  \* 80, 0080
               <<54, 53, 53, 51, 53>>, <<54, 53, 53, 51, 54>>,  \* 65535, 65536
               <<56, 97>>, <<>>}} \cup                          \* 8a
    {SegmentArg("udp", "bytes", v) : v \in {<<35, 130>>, <<80>>}} \cup
    {SegmentArg("quic", "str", <<49>>)}

\* The longest multiaddr the model builds.
MaxSegments == 3

\* The Protos and Addrs of the arguments, or the first error they raise.
RECURSIVE BuildSegments(_)
BuildSegments(args) ==
    IF args = <<>> THEN [err |-> "none", segs |-> <<>>]
    ELSE LET arg == Head(args)
         IN  With(Proto_new(multicodec_get_name(arg.name)), LAMBDA p :
             With(IF arg.kind = "none"
                  THEN [err |-> "none",
                        seg |-> Segment(FALSE, p.proto, <<>>, <<>>)]
                  ELSE Addr_new(p.proto,
                                [isbytes |-> arg.kind = "bytes", v |-> arg.v]),
                  LAMBDA a :
             With(BuildSegments(Tail(args)), LAMBDA rest :
                 IF p.err # "none" THEN [err |-> p.err, segs |-> <<>>]
                 ELSE IF a.err # "none" THEN [err |-> a.err, segs |-> <<>>]
                 ELSE IF rest.err # "none" THEN rest
                 ELSE [err |-> "none", segs |-> <<a.seg>> \o rest.segs])))


\* All the prefixes of the sequences of S.
Prefixes(S) == UNION {{SubSeq(b, 1, k) : k \in 0..Len(b)} : b \in S}

\* The bytes the model gives to decode: the prefixes of a few encodings,
\* right and wrong.
MultiaddrBytes ==
    Prefixes({<<4, 127, 0, 0, 1, 145, 2, 35, 130, 204, 3>>,
              <<145, 2, 0, 80, 4, 1, 2, 3, 4, 85>>,
              <<204, 3, 4, 1, 2, 3, 4, 4, 1, 2, 3, 4>>,
              <<204, 3, 128>>})

\* The texts the model gives to parse: the prefixes of a few texts.
MultiaddrTexts ==
    Prefixes({<<47>> \o ProtoText["ip4"] \o <<47, 49, 46, 50, 46, 51, 46, 52, 47>>
                  \o ProtoText["udp"] \o <<47, 48, 48, 56, 48, 47>>
                  \o ProtoText["quic"],
              <<47>> \o ProtoText["quic"] \o <<47>> \o ProtoText["udp"]
                  \o <<47, 57, 48, 57, 48, 47>> \o ProtoText["raw"]})

MultiaddrIdle ==
    /\ mop = "none"
    /\ ma = NoMultiaddr
    /\ mres = NoMultiaddr
    /\ merr = "none"
    /\ min = <<>>
    /\ mallow = FALSE

\* ma = Multiaddr(*addrs), the arguments being built first
BuildMultiaddr ==
    /\ mop = "none"
    /\ \E args \in SeqsUpTo(SegmentArgs, MaxSegments) :
        LET b == BuildSegments(args)
            r == IF b.err # "none" THEN MultiaddrFail(b.err)
                 ELSE Multiaddr_new(b.segs)
        IN  /\ mop' = "build"
            /\ min' = b.segs
            /\ mallow' = FALSE
            /\ merr' = r.err
            /\ ma' = r.ma
            /\ mres' = NoMultiaddr
            /\ UNCHANGED <<varintVars, cidVars, restVars>>

\* ma = multiaddr.decode(b)
DecodeMultiaddr ==
    /\ mop = "none"
    /\ \E b \in MultiaddrBytes :
        LET r == multiaddr_decode(b)
        IN  /\ mop' = "decode"
            /\ min' = b
            /\ mallow' = FALSE
            /\ merr' = r.err
            /\ ma' = r.ma
            /\ mres' = NoMultiaddr
            /\ UNCHANGED <<varintVars, cidVars, restVars>>

\* ma = multiaddr.parse(s, allow_incomplete)
ParseMultiaddr ==
    /\ mop = "none"
    /\ \E t \in MultiaddrTexts, allow \in BOOLEAN :
        LET r == multiaddr_parse(t, allow)
        IN  /\ mop' = "parse"
            /\ min' = t
            /\ mallow' = allow
            /\ merr' = r.err
            /\ ma' = r.ma
            /\ mres' = NoMultiaddr
            /\ UNCHANGED <<varintVars, cidVars, restVars>>

\* Whether the program holds a Multiaddr and nothing derived from it.
HoldsMultiaddr ==
    mop \in {"build", "decode", "parse", "taken"} /\ ma # NoMultiaddr

\* res = multiaddr.decode(bytes(ma))
RoundTripDecode ==
    LET b == Multiaddr_bytes(ma)
        r == IF b.err # "none" THEN MultiaddrFail(b.err)
             ELSE multiaddr_decode(b.bytes)
    IN  /\ HoldsMultiaddr
        /\ mop' = "roundtrip_bytes"
        /\ merr' = r.err
        /\ mres' = r.ma
        /\ UNCHANGED <<ma, min, mallow>>
        /\ UNCHANGED <<varintVars, cidVars, restVars>>

\* res = multiaddr.decode(bytes(multiaddr.parse(str(ma))))
RoundTripParse ==
    LET p == multiaddr_parse(Multiaddr_str(ma), FALSE)
        b == Multiaddr_bytes(p.ma)
        r == IF p.err # "none" THEN p
             ELSE IF b.err # "none" THEN MultiaddrFail(b.err)
             ELSE multiaddr_decode(b.bytes)
    IN  /\ HoldsMultiaddr
        /\ mop' = "roundtrip_str"
        /\ merr' = r.err
        /\ mres' = r.ma
        /\ UNCHANGED <<ma, min, mallow>>
        /\ UNCHANGED <<varintVars, cidVars, restVars>>

\* The Proto or the Addr of an argument of the model.
OperandSegment(arg) == BuildSegments(<<arg>>).segs[1]

\* The right operands of / in the model: address values, Protos and Addrs,
\* Multiaddrs.
SlashOperands ==
    {ValueOperand(v) :
        v \in {StrValue(<<56, 48>>), StrValue(<<56, 97>>),          \* 80, 8a
               StrValue(<<49, 46, 50, 46, 51, 46, 52>>),            \* 1.2.3.4
               BytesValue(<<127, 0, 0, 1>>), IntValue(9090)}} \cup
    {SegmentOperand(OperandSegment(arg)) :
        arg \in {SegmentArg("quic", "none", <<>>),
                 SegmentArg("udp", "none", <<>>),
                 SegmentArg("ip4", "none", <<>>),
                 SegmentArg("udp", "str", <<56, 48>>),
                 SegmentArg("ip4", "bytes", <<127, 0, 0, 1>>)}} \cup
    {MultiaddrOperand(Multiaddr_new(BuildSegments(args).segs).ma) :
        args \in {<<>>,
                  <<SegmentArg("quic", "none", <<>>)>>,
                  <<SegmentArg("ip4", "none", <<>>)>>,
                  <<SegmentArg("udp", "str", <<56, 48>>),
                    SegmentArg("quic", "none", <<>>)>>,
                  <<SegmentArg("ip4", "bytes", <<127, 0, 0, 1>>),
                    SegmentArg("udp", "none", <<>>)>>}}

\* The slices of the model: [start, stop, step], a start or a stop that is
\* omitted being <<>>.
Slices ==
    {[start |-> a, stop |-> b, step |-> c] :
        a \in {<<>>, <<0>>, <<1>>, <<2>>},
        b \in {<<>>, <<1>>, <<2>>, <<3>>},
        c \in {1, 2, 0 - 1}}

\* res = ma / other
SlashMultiaddr ==
    /\ HoldsMultiaddr
    /\ \E other \in SlashOperands :
        LET r == Multiaddr_truediv(ma, other)
        IN  /\ mop' = "slash"
            /\ min' = other
            /\ merr' = r.err
            /\ mres' = r.ma
            /\ UNCHANGED <<ma, mallow>>
            /\ UNCHANGED <<varintVars, cidVars, restVars>>

\* res = ma[start:stop:step]
SliceMultiaddr ==
    /\ HoldsMultiaddr
    /\ \E idx \in Slices :
        LET r == Multiaddr_getitem(ma, idx.start, idx.stop, idx.step)
        IN  /\ mop' = "slice"
            /\ min' = idx
            /\ merr' = r.err
            /\ mres' = r.ma
            /\ UNCHANGED <<ma, mallow>>
            /\ UNCHANGED <<varintVars, cidVars, restVars>>

\* ma = res, after a / or a slice that returned
TakeResult ==
    /\ mop \in {"slash", "slice"}
    /\ merr = "none"
    /\ mop' = "taken"
    /\ ma' = mres
    /\ mres' = NoMultiaddr
    /\ min' = <<>>
    /\ UNCHANGED <<merr, mallow>>
    /\ UNCHANGED <<varintVars, cidVars, restVars>>

\* del ma, res
DropMultiaddr ==
    /\ mop # "none"
    /\ mop' = "none"
    /\ ma' = NoMultiaddr
    /\ mres' = NoMultiaddr
    /\ merr' = "none"
    /\ min' = <<>>
    /\ mallow' = FALSE
    /\ UNCHANGED <<varintVars, cidVars, restVars>>

NextMultiaddr ==
    \/ BuildMultiaddr \/ DecodeMultiaddr \/ ParseMultiaddr
    \/ RoundTripDecode \/ RoundTripParse
    \/ SlashMultiaddr \/ SliceMultiaddr \/ TakeResult \/ DropMultiaddr

\* --------------------------------------- multiaddr: validity of an address

\* Address values given as bytes have at most MaxAddrBytes bytes.
MaxAddrBytes == 4

\* The address values the model gives to a protocol: the strings of the
\* segments above, and short byte strings.
AddrValues ==
    {StrValue(a.v) : a \in {a \in SegmentArgs : a.kind = "str"}} \cup
    {BytesValue(b) : b \in SeqsUpTo({0, 127}, MaxAddrBytes)}

NoValid == [err |-> "none", valid |-> FALSE]

ProtoIdle ==
    /\ aop = "none"
    /\ aproto = NoCodec
    /\ avalue = StrValue(<<>>)
    /\ avalid = NoValid

\* Proto(name).is_addr_valid(value)
IsAddrValid ==
    /\ aop = "none"
    /\ \E name \in DOMAIN proto_impl, value \in AddrValues :
        LET p == Proto_new(multicodec_get_name(name))
        IN  /\ aop' = "is_addr_valid"
            /\ aproto' = p.proto
            /\ avalue' = value
            /\ avalid' = Proto_is_addr_valid(p.proto, value)
            /\ UNCHANGED <<varintVars, cidVars, multiaddrVars, multicodecVars,
                           tableVars, multibaseVars, constructVars,
                           multihashVars, proquintVars, threadVars, rawVars>>

\* value in Proto(name)
AddrInProto ==
    /\ aop = "none"
    /\ \E name \in DOMAIN proto_impl, value \in AddrValues :
        LET p == Proto_new(multicodec_get_name(name))
        IN  /\ aop' = "contains"
            /\ aproto' = p.proto
            /\ avalue' = value
            /\ avalid' = Proto_contains(p.proto, value)
            /\ UNCHANGED <<varintVars, cidVars, multiaddrVars, multicodecVars,
                           tableVars, multibaseVars, constructVars,
                           multihashVars, proquintVars, threadVars, rawVars>>

NextProto == IsAddrValid \/ AddrInProto

\* ------------------------------------------------- multicodec: the registry

\* Multicodec(name, tag, code, status): an instance with all the fields that
\* its equality compares.
MulticodecObject(name, tag, code, status) ==
    [name |-> name, tag |-> tag, code |-> code, status |-> status]

\* No Multicodec (no call has returned one).
NoMulticodec == MulticodecObject("", "", 0 - 1, "")

\* Multicodec._as_tuple
Multicodec_as_tuple(m) == <<m.name, m.tag, m.code, m.status>>

\* Multicodec.__eq__
Multicodec_eq(a, b) == Multicodec_as_tuple(a) = Multicodec_as_tuple(b)

\* d[k] = v on a dict d
SetItem(d, k, v) == [x \in (DOMAIN d) \cup {k} |-> IF x = k THEN v ELSE d[x]]

\* del d[k] on a dict d that has the key k
DelItem(d, k) == [x \in (DOMAIN d) \ {k} |-> d[x]]

\* multicodec.get(name, code=code) on the tables ct (by code), nt (by name)
multicodec_get(ct, nt, name, code) ==
    IF (name = <<>>) = (code = <<>>)
    THEN [err |-> "ValueError", codec |-> NoMulticodec]
    ELSE IF name # <<>>
    THEN IF name[1] \notin DOMAIN nt
         THEN [err |-> "KeyError", codec |-> NoMulticodec]
         ELSE [err |-> "none", codec |-> nt[name[1]]]
    ELSE IF code[1] \notin DOMAIN ct
         THEN [err |-> "KeyError", codec |-> NoMulticodec]
         ELSE [err |-> "none", codec |-> ct[code[1]]]

\* multicodec.exists(name, code=code)
multicodec_exists(ct, nt, name, code) ==
    IF (name = <<>>) = (code = <<>>)
    THEN [err |-> "ValueError", val |-> FALSE]
    ELSE IF name # <<>>
    THEN [err |-> "none", val |-> name[1] \in DOMAIN nt]
    ELSE [err |-> "none", val |-> code[1] \in DOMAIN ct]

\* The check of the name in register, left out.
NameTaken_Unchecked(nt, codec) == FALSE

\* "codec.name in _name_table and _name_table[codec.name].code != codec.code"
NameTaken(nt, codec) ==
    codec.name \in DOMAIN nt /\ nt[codec.name].code # codec.code

\* multicodec.register(codec, overwrite=overwrite): the exception and the
\* tables after the call
multicodec_register(ct, nt, codec, overwrite) ==
    IF ~overwrite /\ codec.code \in DOMAIN ct
    THEN [err |-> "ValueError", code_table |-> ct, name_table |-> nt]
    ELSE IF NameTaken(nt, codec)
    THEN [err |-> "ValueError", code_table |-> ct, name_table |-> nt]
    ELSE [err |-> "none",
          code_table |-> SetItem(ct, codec.code, codec),
          name_table |-> SetItem(nt, codec.name, codec)]

\* multicodec.unregister(name, code=code): the exception and the tables after
\* the call; each del raises KeyError when the key is missing
multicodec_unregister(ct, nt, name, code) ==
    With(multicodec_get(ct, nt, name, code), LAMBDA g :
        IF g.err # "none"
        THEN [err |-> g.err, code_table |-> ct, name_table |-> nt]
        ELSE IF g.codec.code \notin DOMAIN ct
        THEN [err |-> "KeyError", code_table |-> ct, name_table |-> nt]
        ELSE IF g.codec.name \notin DOMAIN nt
        THEN [err |-> "KeyError",
              code_table |-> DelItem(ct, g.codec.code), name_table |-> nt]
        ELSE [err |-> "none",
              code_table |-> DelItem(ct, g.codec.code),
              name_table |-> DelItem(nt, g.codec.name)])

\* Multicodec.wrap(raw_data), which multicodec.wrap(codec, raw_data) calls
Multicodec_wrap(codec, raw_data) == VarintBytes(codec.code) \o raw_data

\* multicodec.unwrap_raw(multicodec_data) on the table ct
multicodec_unwrap_raw_in(ct, multicodec_data) ==
    With(varint_decode_raw(multicodec_data), LAMBDA r :
        IF r.err # "none"
        THEN [err |-> "ValueError", code |-> Huge, rest |-> <<>>]
        ELSE IF NatOf(r.val) \notin DOMAIN ct
        THEN [err |-> "KeyError", code |-> Huge, rest |-> <<>>]
        ELSE [err |-> "none", code |-> NatOf(r.val), rest |-> r.rest])

\* multicodec.unwrap(multicodec_data) on the tables ct, nt
multicodec_unwrap(ct, nt, multicodec_data) ==
    With(multicodec_unwrap_raw_in(ct, multicodec_data), LAMBDA u :
        IF u.err # "none"
        THEN [err |-> u.err, codec |-> NoMulticodec, raw |-> <<>>]
        ELSE [err |-> "none",
              codec |-> multicodec_get(ct, nt, <<>>, <<u.code>>).codec,
              raw |-> u.rest])

\* The names and the codes of the multicodecs of the model; 0x300001 is a
\* code for private use.
RegistryNames == {"ip4", "my-multicodec", "my-codec"}
RegistryCodes == {4, 3145729}

\* The row of ip4 in the table that the module loads.
ip4_codec == MulticodecObject("ip4", "multiaddr", 4, "permanent")

\* The multicodecs given to register.
RegisterCodecs ==
    {ip4_codec} \cup
    {MulticodecObject(n, "my-tag", c, "draft") :
        n \in RegistryNames, c \in RegistryCodes}

\* The name or the code given to get, exists and unregister.
RegistryKeys ==
    {[name |-> <<n>>, code |-> <<>>] : n \in RegistryNames} \cup
    {[name |-> <<>>, code |-> <<c>>] : c \in RegistryCodes}

\* The raw data given to wrap.
WrapData == {<<>>, <<1, 2>>, <<128>>}

\* The tables after the module is loaded, and no call made yet.
MulticodecIdle ==
    /\ _code_table = [c \in {4} |-> ip4_codec]
    /\ _name_table = [n \in {"ip4"} |-> ip4_codec]
    /\ rop = "none"
    /\ rarg = <<>>
    /\ rres = <<>>

\* multicodec.register(codec, overwrite=overwrite)
Register ==
    \E codec \in RegisterCodecs, overwrite \in BOOLEAN :
        LET r == multicodec_register(_code_table, _name_table, codec, overwrite)
        IN  /\ _code_table' = r.code_table
            /\ _name_table' = r.name_table
            /\ rop' = "register"
            /\ rarg' = [codec |-> codec, overwrite |-> overwrite]
            /\ rres' = [err |-> r.err]
            /\ UNCHANGED <<varintVars, cidVars, multiaddrVars, tableVars, multibaseVars,
                           constructVars, multihashVars,
                   laterVars>>

\* multicodec.unregister(name) and multicodec.unregister(code=code)
Unregister ==
    \E k \in RegistryKeys :
        LET r == multicodec_unregister(_code_table, _name_table, k.name, k.code)
        IN  /\ _code_table' = r.code_table
            /\ _name_table' = r.name_table
            /\ rop' = "unregister"
            /\ rarg' = k
            /\ rres' = [err |-> r.err]
            /\ UNCHANGED <<varintVars, cidVars, multiaddrVars, tableVars, multibaseVars,
                           constructVars, multihashVars,
                   laterVars>>

\* c = multicodec.get(name) or multicodec.get(code=code), followed by
\* multicodec.unwrap(multicodec.wrap(c, b))
WrapUnwrap ==
    \E k \in RegistryKeys, b \in WrapData :
        LET g == multicodec_get(_code_table, _name_table, k.name, k.code)
        IN  /\ g.err = "none"
            /\ rop' = "wrap"
            /\ rarg' = [codec |-> g.codec, raw |-> b]
            /\ rres' = multicodec_unwrap(_code_table, _name_table,
                                         Multicodec_wrap(g.codec, b))
            /\ UNCHANGED <<_code_table, _name_table>>
            /\ UNCHANGED <<varintVars, cidVars, multiaddrVars, tableVars, multibaseVars,
                           constructVars, multihashVars,
                   laterVars>>

NextMulticodec == Register \/ Unregister \/ WrapUnwrap

\* ------------------------------------------- multicodec: building the tables

\* The longest input given to build_multicodec_tables.
MaxEntries == 3

\* Multicodec.is_private_use: "self.code in range(0x300000, 0x400000)"
is_private_use(m) == m.code >= 3145728 /\ m.code < 4194304

\* The outcome of build_multicodec_tables when it raises.
BuildFail == [err |-> "ValueError", code_table |-> <<>>, name_table |-> <<>>]

\* "m.name in name_table"
NameRepeated(nt, m) == m.name \in DOMAIN nt

\* The loop of build_multicodec_tables over the entries ms, and the check of
\* the overwritten draft codes after it. The comparison m.code != "permanent"
\* of an int with a str is always true.
RECURSIVE build_loop(_, _, _, _, _)
build_loop(ms, allow_private_use, ct, nt, overwritten_draft_codes) ==
    IF ms = <<>>
    THEN IF \E code \in overwritten_draft_codes : ct[code].status # "permanent"
         THEN BuildFail
         ELSE [err |-> "none", code_table |-> ct, name_table |-> nt]
    ELSE IF ~allow_private_use /\ is_private_use(Head(ms))
    THEN BuildFail
    ELSE IF Head(ms).code \in DOMAIN ct
            /\ ct[Head(ms).code].status = "permanent"
    THEN IF Head(ms).status = "draft"
         THEN build_loop(Tail(ms), allow_private_use, ct, nt,
                         overwritten_draft_codes)
         ELSE BuildFail
    ELSE IF NameRepeated(nt, Head(ms))
    THEN BuildFail
    ELSE build_loop(Tail(ms), allow_private_use,
                    SetItem(ct, Head(ms).code, Head(ms)),
                    SetItem(nt, Head(ms).name, Head(ms)),
                    IF Head(ms).code \in DOMAIN ct
                    THEN overwritten_draft_codes \cup {Head(ms).code}
                    ELSE overwritten_draft_codes)

\* build_multicodec_tables(multicodecs, allow_private_use=allow_private_use)
build_multicodec_tables(multicodecs, allow_private_use) ==
    build_loop(multicodecs, allow_private_use, <<>>, <<>>, {})

\* The entries given to build_multicodec_tables; 0x300000 is a code for
\* private use.
TableEntries ==
    {MulticodecObject(n, "private", c, st) :
        n \in {"identity", "my-codec"}, c \in {0, 3145728},
        st \in {"draft", "permanent"}}

\* The inputs given to build_multicodec_tables.
TableInputs ==
    {[multicodecs |-> ms, allow_private_use |-> a] :
        ms \in SeqsUpTo(TableEntries, MaxEntries), a \in BOOLEAN}

\* No outcome of build_multicodec_tables (no call made yet).
NoTables == [err |-> "no call", code_table |-> <<>>, name_table |-> <<>>]

\* No call of build_multicodec_tables made, and none to make.
TableIdle ==
    /\ tin = [multicodecs |-> <<>>, allow_private_use |-> FALSE]
    /\ tres = NoTables

\* code_table, name_table = build_multicodec_tables(multicodecs)
BuildTables ==
    /\ tres = NoTables
    /\ tres' = build_multicodec_tables(tin.multicodecs, tin.allow_private_use)
    /\ UNCHANGED tin
    /\ UNCHANGED <<varintVars, cidVars, multiaddrVars, multicodecVars, multibaseVars,
                 constructVars, multihashVars,
                   laterVars>>

NextTable == BuildTables

\* -------------------------------------------------- multibase: the registry

\* Multibase(name, code, status): an instance with all the fields that its
\* equality compares; the code is the code point of its one character.
MultibaseObject(name, code, status) ==
    [name |-> name, code |-> code, status |-> status]

\* No Multibase (no call has returned one).
NoMultibase == MultibaseObject("", 0 - 1, "")

\* Multibase.__eq__, which compares Multibase._as_tuple
Multibase_eq(a, b) ==
    <<a.name, a.code, a.status>> = <<b.name, b.code, b.status>>

\* multibase.get(name, code=code) on the tables ct (by code), nt (by name)
multibase_get(ct, nt, name, code) ==
    IF (name = <<>>) = (code = <<>>)
    THEN [err |-> "ValueError", base |-> NoMultibase]
    ELSE IF code # <<>>
    THEN IF code[1] \notin DOMAIN ct
         THEN [err |-> "KeyError", base |-> NoMultibase]
         ELSE [err |-> "none", base |-> ct[code[1]]]
    ELSE IF name[1] \notin DOMAIN nt
         THEN [err |-> "KeyError", base |-> NoMultibase]
         ELSE [err |-> "none", base |-> nt[name[1]]]

\* multibase.register(base, overwrite=overwrite): the exception and the
\* tables after the call
multibase_register(ct, nt, base, overwrite) ==
    IF ~overwrite /\ base.code \in DOMAIN ct
    THEN [err |-> "ValueError", code_table |-> ct, name_table |-> nt]
    ELSE IF base.name \in DOMAIN nt /\ nt[base.name].code # base.code
    THEN [err |-> "ValueError", code_table |-> ct, name_table |-> nt]
    ELSE [err |-> "none",
          code_table |-> SetItem(ct, base.code, base),
          name_table |-> SetItem(nt, base.name, base)]

\* multibase.unregister(name, code=code): the exception and the tables after
\* the call; each del raises KeyError when the key is missing
multibase_unregister(ct, nt, name, code) ==
    With(multibase_get(ct, nt, name, code), LAMBDA g :
        IF g.err # "none"
        THEN [err |-> g.err, code_table |-> ct, name_table |-> nt]
        ELSE IF g.base.code \notin DOMAIN ct
        THEN [err |-> "KeyError", code_table |-> ct, name_table |-> nt]
        ELSE IF g.base.name \notin DOMAIN nt
        THEN [err |-> "KeyError",
              code_table |-> DelItem(ct, g.base.code), name_table |-> nt]
        ELSE [err |-> "none",
              code_table |-> DelItem(ct, g.base.code),
              name_table |-> DelItem(nt, g.base.name)])

\* multibase.from_str(s) on the table ct; every code is one character
multibase_from_str(ct, s) ==
    IF Len(s) = 0
    THEN [err |-> "ValueError", base |-> NoMultibase]
    ELSE IF s[1] \in DOMAIN ct
    THEN [err |-> "none", base |-> ct[s[1]]]
    ELSE [err |-> "KeyError", base |-> NoMultibase]

\* Multibase.decode(s) of the instance self, on the table ct
Multibase_decode(ct, self, s) ==
    With(multibase_from_str(ct, s), LAMBDA f :
        IF f.err # "none"
        THEN [err |-> f.err, bytes |-> <<>>]
        ELSE IF ~Multibase_eq(f.base, self)
        THEN [err |-> "ValueError", bytes |-> <<>>]
        ELSE raw_decode(self.name, Tail(s)))

\* multibase.decode(s) on the table ct
multibase_decode(ct, s) ==
    With(multibase_from_str(ct, s), LAMBDA f :
        IF f.err # "none"
        THEN [err |-> f.err, bytes |-> <<>>]
        ELSE Multibase_decode(ct, f.base, s))

\* The rows of base16 and base32 in the table that the module loads.
base16_row == MultibaseObject("base16", 102, "default")
base32_row == MultibaseObject("base32", 98, "default")

\* The Multibase instances of the model: the two rows, and instances with the
\* same names and codes in other combinations and with another status.
MultibaseInstances ==
    {MultibaseObject(n, c, st) :
        n \in {"base16", "base32"}, c \in {102, 98},
        st \in {"default", "draft"}}

\* The name or the code given to get and unregister.
MultibaseKeys ==
    {[name |-> <<n>>, code |-> <<>>] : n \in {"base16", "base32"}} \cup
    {[name |-> <<>>, code |-> <<c>>] : c \in {102, 98}}

\* The byte strings given to encode.
EncodeData == {<<>>, <<1>>, <<0, 255>>}

\* The tables after the module is loaded, and no call made yet.
MultibaseIdle ==
    /\ multibase_code_table =
        [c \in {102, 98} |-> IF c = 102 THEN base16_row ELSE base32_row]
    /\ multibase_name_table =
        [n \in {"base16", "base32"} |->
            IF n = "base16" THEN base16_row ELSE base32_row]
    /\ bop = "none"
    /\ barg = <<>>
    /\ bres = <<>>

\* multibase.register(base, overwrite=overwrite)
RegisterBase ==
    \E base \in MultibaseInstances, overwrite \in BOOLEAN :
        LET r == multibase_register(multibase_code_table, multibase_name_table,
                                    base, overwrite)
        IN  /\ multibase_code_table' = r.code_table
            /\ multibase_name_table' = r.name_table
            /\ bop' = "register"
            /\ barg' = [base |-> base, overwrite |-> overwrite]
            /\ bres' = [err |-> r.err]
            /\ UNCHANGED <<varintVars, cidVars, multiaddrVars,
                           multicodecVars, tableVars, constructVars, multihashVars,
                   laterVars>>

\* multibase.unregister(name) and multibase.unregister(code=code)
UnregisterBase ==
    \E k \in MultibaseKeys :
        LET r == multibase_unregister(multibase_code_table,
                                      multibase_name_table, k.name, k.code)
        IN  /\ multibase_code_table' = r.code_table
            /\ multibase_name_table' = r.name_table
            /\ bop' = "unregister"
            /\ barg' = k
            /\ bres' = [err |-> r.err]
            /\ UNCHANGED <<varintVars, cidVars, multiaddrVars,
                           multicodecVars, tableVars, constructVars, multihashVars,
                   laterVars>>

\* enc = multibase.get(name) or multibase.get(code=code), followed by
\* s = multibase.encode(b, enc), multibase.decode(s), enc.decode(s) and
\* other.decode(s) for each other instance
EncodeDecode ==
    \E k \in MultibaseKeys, b \in EncodeData :
        LET g == multibase_get(multibase_code_table, multibase_name_table,
                               k.name, k.code)
            s == Multibase_encode(g.base, b)
        IN  /\ g.err = "none"
            /\ s.err = "none"
            /\ bop' = "encode"
            /\ barg' = [enc |-> g.base, b |-> b]
            /\ bres' =
                [str |-> s.str,
                 decoded |-> multibase_decode(multibase_code_table, s.str),
                 enc_decoded |->
                    Multibase_decode(multibase_code_table, g.base, s.str),
                 other_decoded |->
                    [other \in MultibaseInstances |->
                        Multibase_decode(multibase_code_table, other, s.str)]]
            /\ UNCHANGED <<multibase_code_table, multibase_name_table>>
            /\ UNCHANGED <<varintVars, cidVars, multiaddrVars,
                           multicodecVars, tableVars, constructVars, multihashVars,
                   laterVars>>

NextMultibase == RegisterBase \/ UnregisterBase \/ EncodeDecode

\* ------------------------------------------------- multibase: construction

\* The characters 0-9, a-z and A-Z, by code point.
IsDigitChar(c) == c >= 48 /\ c <= 57
IsLowerChar(c) == c >= 97 /\ c <= 122
IsUpperChar(c) == c >= 65 /\ c <= 90

\* The value of a hexadecimal digit, or -1 for any other character.
HexDigit(c) ==
    IF IsDigitChar(c) THEN c - 48
    ELSE IF c >= 97 /\ c <= 102 THEN c - 87
    ELSE IF c >= 65 /\ c <= 70 THEN c - 55
    ELSE 0 - 1

\* The value of the hexadecimal digits s.
RECURSIVE HexValue(_)
HexValue(s) ==
    IF s = <<>> THEN 0
    ELSE 16 * HexValue(SubSeq(s, 1, Len(s) - 1)) + HexDigit(s[Len(s)])

\* re.match(r"^0x([0-9a-zA-Z][0-9a-zA-Z])+$", code); "$" also matches before
\* a newline that ends the string
MatchesHexForm(code) ==
    LET body == IF code # <<>> /\ code[Len(code)] = 10
                THEN SubSeq(code, 1, Len(code) - 1) ELSE code
        ok(t) == /\ Len(t) >= 4
                 /\ Len(t) % 2 = 0
                 /\ t[1] = 48
                 /\ t[2] = 120
                 /\ \A i \in 3..Len(t) :
                        IsDigitChar(t[i]) \/ IsLowerChar(t[i]) \/ IsUpperChar(t[i])
    IN  ok(code) \/ ok(body)

\* Multibase.validate_code(code): int(code, base=16) raises ValueError on a
\* character that is no hexadecimal digit and strips the white space around
\* the digits; chr raises ValueError above 0x10FFFF.
Multibase_validate_code(code) ==
    IF MatchesHexForm(code)
    THEN With(IF code[Len(code)] = 10
              THEN SubSeq(code, 3, Len(code) - 1)
              ELSE SubSeq(code, 3, Len(code)), LAMBDA digits :
         IF \E i \in 1..Len(digits) : HexDigit(digits[i]) < 0
         THEN [err |-> "ValueError", code |-> <<>>]
         ELSE IF HexValue(digits) >= 32 /\ HexValue(digits) < 127
         THEN [err |-> "ValueError", code |-> <<>>]
         ELSE IF HexValue(digits) > 1114111
         THEN [err |-> "ValueError", code |-> <<>>]
         ELSE [err |-> "none", code |-> <<HexValue(digits)>>])
    ELSE IF Len(code) # 1
    THEN [err |-> "ValueError", code |-> <<>>]
    ELSE [err |-> "none", code |-> code]

\* Multibase._validate_name(name): re.match(r"^[a-z][a-z0-9_-]+$", name)
Multibase_validate_name(name) ==
    LET body == IF name # <<>> /\ name[Len(name)] = 10
                THEN SubSeq(name, 1, Len(name) - 1) ELSE name
        ok(t) == /\ Len(t) >= 2
                 /\ IsLowerChar(t[1])
                 /\ \A i \in 2..Len(t) :
                        IsLowerChar(t[i]) \/ IsDigitChar(t[i]) \/ t[i] \in {95, 45}
    IN  ok(name) \/ ok(body)

\* Multibase._validate_status(status)
Multibase_validate_status(status) ==
    status \in {"draft", "candidate", "default"}

\* Multibase(name, code, status) for a name and a code given as text: the
\* exception, and the code of the instance
Multibase_new(name, code, status) ==
    IF ~Multibase_validate_name(name)
    THEN [err |-> "ValueError", code |-> <<>>]
    ELSE IF Multibase_validate_code(code).err # "none"
    THEN [err |-> Multibase_validate_code(code).err, code |-> <<>>]
    ELSE IF ~Multibase_validate_status(status)
    THEN [err |-> "ValueError", code |-> <<>>]
    ELSE [err |-> "none", code |-> Multibase_validate_code(code).code]

\* The names given to Multibase(...): my-base, x, My.
ConstructNames == {<<109, 121, 45, 98, 97, 115, 101>>, <<120>>, <<77, 121>>}

\* The codes given to Multibase(...).
ConstructCodes ==
    { <<102>>,                          \* f
      <<32>>,                           \* a space
      <<0>>,                            \* the character 0x00, given literally
      <<127>>,                          \* the character 0x7f, given literally
      <<233>>,                          \* e with acute accent
      <<8364>>,                         \* the euro sign
      <<>>,                             \* the empty string
      <<104, 105>>,                     \* hi
      <<48, 120>>,                      \* 0x
      <<48, 120, 48>>,                  \* 0x0
      <<48, 120, 48, 48>>,              \* 0x00
      <<48, 88, 48, 48>>,               \* 0X00
      <<48, 120, 54, 54>>,              \* 0x66
      <<48, 120, 55, 102>>,             \* 0x7f
      <<48, 120, 55, 70>>,              \* 0x7F
      <<48, 120, 56, 48>>,              \* 0x80
      <<48, 120, 122, 122>>,            \* 0xzz
      <<48, 120, 48, 49, 48, 48>>,      \* 0x0100
      <<48, 120, 49, 49, 48, 48, 48, 48>>,  \* 0x110000
      <<48, 120, 48, 48, 10>> }         \* 0x00 and a newline

\* The inputs given to Multibase(...).
ConstructInputs ==
    {[name |-> n, code |-> c, status |-> st] :
        n \in ConstructNames, c \in ConstructCodes,
        st \in {"draft", "default", "final"}}

\* No outcome of Multibase(...) (no call made yet).
NoOutcome == [err |-> "no call", code |-> <<>>]

\* No call of Multibase(...) made, and none to make.
ConstructIdle ==
    /\ xin = [name |-> <<>>, code |-> <<>>, status |-> ""]
    /\ xres = NoOutcome

\* Multibase(name, code, status)
ConstructMultibase ==
    /\ xres = NoOutcome
    /\ xres' = Multibase_new(xin.name, xin.code, xin.status)
    /\ UNCHANGED xin
    /\ UNCHANGED <<varintVars, cidVars, multiaddrVars, multicodecVars,
                   tableVars, multibaseVars, multihashVars, laterVars>>

NextConstruct == ConstructMultibase

\* ------------------------------------------------ multihash: digest, unwrap

\* multihash.raw.get(name): the exception, and the max digest size of the
\* implementation. The implementation of murmur3-32 is registered at its
\* first use, by raw.register, which imports mmh3 (ImportError when the
\* package is not installed) and then rejects the name because its multicodec
\* is not tagged multihash.
multihash_raw_get(name, mmh3) ==
    IF name \in DOMAIN multihash_max_digest_size
    THEN [err |-> "none", max |-> multihash_max_digest_size[name]]
    ELSE IF name = "murmur3-32"
    THEN [err |-> IF mmh3 THEN "ValueError" ELSE "ImportError", max |-> NoMax]
    ELSE [err |-> "KeyError", max |-> NoMax]

\* mmh3.hash of the data as 4 bytes, abstracted to a function of the length
murmur3_32(data) == Rep(4, (Len(data) + 3) % 256)

\* validate_hashfun_args(data, size, max_digest_size), and then
\* "d if size is None else d[:size]"
Truncated(d, size, max_digest_size) ==
    IF size # <<>> /\ size[1] < 0
    THEN [err |-> "ValueError", bytes |-> <<>>]
    ELSE IF size # <<>> /\ max_digest_size # NoMax /\ size[1] > max_digest_size
    THEN [err |-> "ValueError", bytes |-> <<>>]
    ELSE IF size = <<>> \/ size[1] >= Len(d)
    THEN [err |-> "none", bytes |-> d]
    ELSE [err |-> "none", bytes |-> SubSeq(d, 1, size[1])]

\* The raw hash function of the given name on (data, size): _identity, the
\* hashfun of _sha(2, 256), the hashfun of _murmur3("32", 32)
Hashfun(name, data, size) ==
    IF name = "identity"
    THEN IF size # <<>> /\ size[1] >= 0 /\ Len(data) < size[1]
         THEN [err |-> "ValueError", bytes |-> <<>>]
         ELSE Truncated(data, size, NoMax)
    ELSE IF name = "sha2-256"
    THEN Truncated(sha2_256(data), size, 32)
    ELSE Truncated(murmur3_32(data), size, 4)

\* Multihash.digest(data, size=size) of the instance with codec codec
Multihash_digest(codec, data, size, mmh3) ==
    With(Hashfun(codec.name, data, size), LAMBDA raw_digest :
        IF multihash_raw_get(codec.name, mmh3).err # "none"
        THEN [err |-> multihash_raw_get(codec.name, mmh3).err, bytes |-> <<>>]
        ELSE IF raw_digest.err # "none"
        THEN [err |-> raw_digest.err, bytes |-> <<>>]
        ELSE IF size # <<>> /\ size[1] # Len(raw_digest.bytes)
        THEN [err |-> "AssertionError", bytes |-> <<>>]
        ELSE [err |-> "none",
              bytes |-> VarintBytes(codec.code)
                            \o VarintBytes(Len(raw_digest.bytes))
                            \o raw_digest.bytes])

\* multihash.digest(data, hashfun, size=size) for the name of a hash function
multihash_digest(data, hashfun, size, mmh3) ==
    With(multihash_get_name(hashfun), LAMBDA h :
        IF h.err # "none"
        THEN [err |-> h.err, bytes |-> <<>>]
        ELSE Multihash_digest(h.hashfun, data, size, mmh3))

\* Multihash.unwrap(digest) of the instance with codec codec, on a bytes-like
\* object
Multihash_unwrap(codec, digest, mmh3) ==
    With(multihash_unwrap_raw(digest), LAMBDA u :
        IF u.err # "none"
        THEN [err |-> u.err, bytes |-> <<>>]
        ELSE IF u.code # codec.code
        THEN [err |-> "ValueError", bytes |-> <<>>]
        ELSE IF multihash_raw_get(codec.name, mmh3).err # "none"
        THEN [err |-> multihash_raw_get(codec.name, mmh3).err, bytes |-> <<>>]
        ELSE IF ~raw_digest_size_ok(u.raw,
                                    multihash_raw_get(codec.name, mmh3).max)
        THEN [err |-> "ValueError", bytes |-> <<>>]
        ELSE [err |-> "none", bytes |-> u.raw])

\* multihash.unwrap(digest, hashfun) for no hash function (<<>>) or the name
\* of one
multihash_unwrap(digest, hashfun, mmh3) ==
    IF hashfun # <<>>
    THEN With(multihash_get_name(hashfun[1]), LAMBDA h :
            IF h.err # "none"
            THEN [err |-> h.err, bytes |-> <<>>]
            ELSE Multihash_unwrap(h.hashfun, digest, mmh3))
    ELSE With(multihash_unwrap_raw(digest), LAMBDA u :
            IF u.err # "none"
            THEN [err |-> u.err, bytes |-> <<>>]
            ELSE With(multihash_get_code(u.code), LAMBDA h :
                IF h.err # "none"
                THEN [err |-> h.err, bytes |-> <<>>]
                ELSE Multihash_unwrap(h.hashfun, digest, mmh3)))

\* The names of the hash functions for which Multihash(name) returns.
HashfunNames == {"identity", "sha2-256", "murmur3-32"}

\* The data and the sizes given to digest.
DigestInputs ==
    {[op |-> "digest", hashfun |-> h, data |-> d, size |-> sz, mmh3 |-> m] :
        h \in HashfunNames, d \in {<<>>, <<1, 2, 3>>},
        sz \in {<<>>, <<0>>, <<2>>, <<4>>, <<32>>, <<33>>, <<0 - 1>>},
        m \in BOOLEAN}

\* The byte strings given to Multihash.unwrap: a code, a declared size and a
\* raw digest of some size, and strings that end too early.
UnwrapData ==
    {VarintBytes(c) \o VarintBytes(declared) \o Rep(actual, 7) :
        c \in {0, 18, 35, 85, 99},
        declared \in {0, 2, 32, 33}, actual \in {0, 2, 32, 33}}
    \cup {<<>>, <<128>>, <<18>>, <<18, 128>>}

\* The byte strings given to Multihash.unwrap, for each hash function.
UnwrapInputs ==
    {[op |-> "unwrap", hashfun |-> h, data |-> d, size |-> <<>>, mmh3 |-> m] :
        h \in HashfunNames, d \in UnwrapData, m \in BOOLEAN}

\* No outcome of a call of multihash (no call made yet).
NoDigest == [err |-> "no call"]

\* No call of multihash made, and none to make.
MultihashIdle ==
    /\ hin = [op |-> "none"]
    /\ hres = NoDigest

\* d = multihash.digest(data, h, size=size), followed by multihash.unwrap(d),
\* multihash.unwrap(d, h) and multihash.unwrap(d, other) for each other hash
\* function
DigestUnwrap ==
    /\ hin.op = "digest"
    /\ hres = NoDigest
    /\ LET d == multihash_digest(hin.data, hin.hashfun, hin.size, hin.mmh3)
       IN  hres' =
            [digest |-> d,
             unwrapped |-> multihash_unwrap(d.bytes, <<>>, hin.mmh3),
             unwrapped_h |->
                multihash_unwrap(d.bytes, <<hin.hashfun>>, hin.mmh3),
             unwrapped_other |->
                [other \in HashfunNames \ {hin.hashfun} |->
                    multihash_unwrap(d.bytes, <<other>>, hin.mmh3)]]
    /\ UNCHANGED hin
    /\ UNCHANGED <<varintVars, cidVars, multiaddrVars, multicodecVars,
                   tableVars, multibaseVars, constructVars, laterVars>>

\* multihash.get(h).unwrap(data)
UnwrapDigest ==
    /\ hin.op = "unwrap"
    /\ hres = NoDigest
    /\ hres' = Multihash_unwrap(multihash_get_name(hin.hashfun).hashfun,
                                hin.data, hin.mmh3)
    /\ UNCHANGED hin
    /\ UNCHANGED <<varintVars, cidVars, multiaddrVars, multicodecVars,
                   tableVars, multibaseVars, constructVars, laterVars>>

NextMultihash == DigestUnwrap \/ UnwrapDigest

\* --------------------------------------------------------------- proquint

\* The longest byte string given to the proquint encoder.
MaxProquintBytes == 4

\* The byte strings given to the proquint encoder.
ProquintBytes == SeqsUpTo({0, 1, 127, 128, 255}, MaxProquintBytes)

\* The strings given to the proquint decoder, with the multibase prefix "p".
ProquintStrings ==
    {<<112, 114, 111, 45>>,   \* pro-
     <<112, 114, 111, 45, 108, 117, 115, 97, 98, 45, 98, 97, 98, 97, 100>>,   \* pro-lusab-babad
     <<112, 114, 111, 45, 108, 117, 115, 97, 98>>,   \* pro-lusab
     <<112, 114, 111, 45, 98, 97, 98>>,   \* pro-bab
     <<112, 114, 111, 45, 98, 97, 100>>,   \* pro-bad
     <<112, 114, 111, 45, 108, 117, 115, 97>>,   \* pro-lusa
     <<112, 114, 111, 45, 108, 117, 115, 97, 98, 45>>,   \* pro-lusab-
     <<112, 114, 111, 45, 108, 117, 115, 97, 98, 120, 98, 97, 98, 97, 100>>,   \* pro-lusabxbabad
     <<112, 114, 111, 45, 108, 97, 115, 97, 98>>,   \* pro-lasab
     <<112, 114, 111, 45, 108, 117, 113, 97, 98>>,   \* pro-luqab
     <<112, 108, 117, 115, 97, 98>>,   \* plusab
     <<112>>,   \* p
     <<112, 114, 111, 45, 108, 117, 115, 97, 98, 45, 98, 97, 98>>,   \* pro-lusab-bab
     <<112, 114, 111, 45, 122, 117, 122, 117, 122, 45, 122, 117, 122>>}   \* pro-zuzuz-zuz

\* No call of the proquint encoding made, and none to make.
ProquintIdle ==
    /\ pin = [op |-> "none"]
    /\ pres = NoDigest

\* s = encoder(b); decoder(s); proquint.encode(b); proquint.decode(that), for
\* the raw encoder and decoder of proquint = multibase.get("proquint")
EncodeProquint ==
    /\ pin.op = "encode"
    /\ pres = NoDigest
    /\ LET proquint == multibase_get_name("proquint").base
           s == proquint_raw_encoder(pin.b)
           e == Multibase_encode(proquint, pin.b)
       IN  pres' = [str |-> s.str,
                    decoded |-> proquint_raw_decoder(s.str),
                    encoded |-> e.str,
                    multibase_decoded |-> multibase_decode_raw(e.str)]
    /\ UNCHANGED pin
    /\ UNCHANGED <<varintVars, cidVars, multiaddrVars, multicodecVars,
                   tableVars, multibaseVars, constructVars, multihashVars,
                   threadVars, rawVars, protoVars>>

\* multibase.decode(s) of a string with the prefix of proquint
DecodeProquint ==
    /\ pin.op = "decode"
    /\ pres = NoDigest
    /\ pres' = multibase_decode_raw(pin.s)
    /\ UNCHANGED pin
    /\ UNCHANGED <<varintVars, cidVars, multiaddrVars, multicodecVars,
                   tableVars, multibaseVars, constructVars, multihashVars,
                   threadVars, rawVars, protoVars>>

NextProquint == EncodeProquint \/ DecodeProquint

\* ------------------------------------------------- CID: concurrent threads

\* The threads that construct CIDs.
Threads == {1, 2}

\* The CID objects made in a behaviour are at most MaxObjects.
MaxObjects == 4

\* The keys the threads build: (base, version, codec, hashfun, digest).
ThreadKeys ==
    {<<"base32", 1, "raw", "sha2-256", <<18, 32>> \o Rep(32, d)>> : d \in {1, 2}}

\* No key (the thread is not in a call).
NoKey == <<>>

\* The variables of the rest of the program, which the threads leave alone.
OtherVars ==
    <<varintVars, cidVars, multiaddrVars, multicodecVars, tableVars,
      multibaseVars, constructVars, multihashVars, proquintVars, rawVars,
      protoVars>>

\* No thread is in a call, and no CID object exists.
ThreadsIdle ==
    /\ __instances = <<>>
    /\ pc = [t \in Threads |-> "idle"]
    /\ tkey = [t \in Threads |-> NoKey]
    /\ tinstance = [t \in Threads |-> 0]
    /\ allocated = 0

\* The table of instances without the entries whose object no thread refers
\* to: the table is a WeakValueDictionary
Collected(table, refs) ==
    [k \in {k \in DOMAIN table : \E t \in Threads : refs[t] = table[k]}
        |-> table[k]]

\* A thread enters CID._new_instance and builds the key
BuildKey ==
    \E t \in Threads, k \in ThreadKeys :
        /\ pc[t] = "idle"
        /\ pc' = [pc EXCEPT ![t] = "get"]
        /\ tkey' = [tkey EXCEPT ![t] = k]
        /\ UNCHANGED <<__instances, tinstance, allocated>>
        /\ UNCHANGED OtherVars

\* instance = CID.__instances.get(key)
GetInstance ==
    \E t \in Threads :
        /\ pc[t] = "get"
        /\ tinstance' = [tinstance EXCEPT ![t] =
                IF tkey[t] \in DOMAIN __instances THEN __instances[tkey[t]]
                ELSE 0]
        /\ pc' = [pc EXCEPT ![t] =
                IF tkey[t] \in DOMAIN __instances THEN "return" ELSE "new"]
        /\ UNCHANGED <<__instances, tkey, allocated>>
        /\ UNCHANGED OtherVars

\* instance = object.__new__(CID_subclass), and the assignments of its fields
NewObject ==
    \E t \in Threads :
        /\ pc[t] = "new"
        /\ allocated < MaxObjects
        /\ allocated' = allocated + 1
        /\ tinstance' = [tinstance EXCEPT ![t] = allocated + 1]
        /\ pc' = [pc EXCEPT ![t] = "insert"]
        /\ UNCHANGED <<__instances, tkey>>
        /\ UNCHANGED OtherVars

\* CID.__instances[key] = instance
InsertInstance ==
    \E t \in Threads :
        /\ pc[t] = "insert"
        /\ __instances' = Collected(SetItem(__instances, tkey[t], tinstance[t]),
                                    tinstance)
        /\ pc' = [pc EXCEPT ![t] = "return"]
        /\ UNCHANGED <<tkey, tinstance, allocated>>
        /\ UNCHANGED OtherVars

\* The caller drops the CID that the call returned
DropInstance ==
    \E t \in Threads :
        /\ pc[t] = "return"
        /\ pc' = [pc EXCEPT ![t] = "idle"]
        /\ tkey' = [tkey EXCEPT ![t] = NoKey]
        /\ tinstance' = [tinstance EXCEPT ![t] = 0]
        /\ __instances' = Collected(__instances, tinstance')
        /\ UNCHANGED allocated
        /\ UNCHANGED OtherVars

NextThreads ==
    \/ BuildKey \/ GetInstance \/ NewObject \/ InsertInstance
    \/ DropInstance

\* ------------------------------------------- multibase.raw: the registry

\* An encoding of the bases library: the instance that the module imports,
\* and whether nopad() and lower() were applied to it.
BaseEncoding(base, nopad, lower) ==
    [base |-> base, nopad |-> nopad, lower |-> lower, custom |-> FALSE]

\* A CustomEncoding, named after its raw encoder.
CustomEncoding(name) ==
    [base |-> name, nopad |-> FALSE, lower |-> FALSE, custom |-> TRUE]

\* No encoding (the call raised).
NoEncoding == CustomEncoding("")

\* The names of the base32 encodings in _jit_registered_encodings, for _hex,
\* _pad and _upper.
base32_key(_hex, _pad, _upper) ==
    CASE ~_hex /\ ~_pad /\ ~_upper -> "base32"
      [] ~_hex /\ ~_pad /\ _upper -> "base32upper"
      [] ~_hex /\ _pad /\ ~_upper -> "base32pad"
      [] ~_hex /\ _pad /\ _upper -> "base32padupper"
      [] _hex /\ ~_pad /\ ~_upper -> "base32hex"
      [] _hex /\ ~_pad /\ _upper -> "base32hexupper"
      [] _hex /\ _pad /\ ~_upper -> "base32hexpad"
      [] _hex /\ _pad /\ _upper -> "base32hexpadupper"

\* The keys of _jit_registered_encodings.
jit_registered_encodings ==
    {"identity", "proquint", "base64", "base64url", "base16", "base36"}
        \cup {base32_key(h, p, u) : h, p, u \in BOOLEAN}

\* The table after the module is loaded: the encodings registered "already
\* instantiated by bases".
raw_encodings_loaded ==
    [name \in {"base2", "base8", "base10", "base16upper", "base32padupper",
               "base32hexpadupper", "base32z", "base36upper", "base58btc",
               "base58flickr", "base64pad", "base64urlpad"} |->
        CASE name = "base16upper" -> BaseEncoding("base16", FALSE, FALSE)
          [] name = "base32padupper" -> BaseEncoding("base32", FALSE, FALSE)
          [] name = "base32hexpadupper" -> BaseEncoding("base32hex", FALSE, FALSE)
          [] name = "base36upper" -> BaseEncoding("base36", FALSE, FALSE)
          [] name = "base64pad" -> BaseEncoding("base64", FALSE, FALSE)
          [] name = "base64urlpad" -> BaseEncoding("base64url", FALSE, FALSE)
          [] OTHER -> BaseEncoding(name, FALSE, FALSE)]

\* raw.register(name, enc, overwrite=overwrite)
raw_register(table, name, enc, overwrite) ==
    IF ~overwrite /\ name \in DOMAIN table
    THEN [err |-> "ValueError", table |-> table]
    ELSE [err |-> "none", table |-> SetItem(table, name, enc)]

\* raw.unregister(name)
raw_unregister(table, name) ==
    IF name \notin DOMAIN table THEN [err |-> "KeyError", table |-> table]
    ELSE [err |-> "none", table |-> DelItem(table, name)]

\* raw.exists(name)
raw_exists(table, name) ==
    name \in DOMAIN table \/ name \in jit_registered_encodings

\* _jit_register_base_encoding(32, _hex, _pad, _upper); debug tells whether
\* the assert statements are executed (they are unless Python runs with -O)
jit_register_base32(table, _hex, _pad, _upper, debug) ==
    IF debug /\ ~(~_pad \/ ~_upper)
    THEN [err |-> "AssertionError", table |-> table]
    ELSE raw_register(table, base32_key(_hex, _pad, _upper),
                      BaseEncoding(IF _hex THEN "base32hex" ELSE "base32",
                                   ~_pad, ~_upper),
                      FALSE)

\* _jit_register_encoding(name), for a key of _jit_registered_encodings
jit_register_encoding(table, name, debug) ==
    IF name \in {"identity", "proquint"}
    THEN raw_register(table, name, CustomEncoding(name), FALSE)
    ELSE IF name \in {"base64", "base64url"}
    THEN raw_register(table, name, BaseEncoding(name, TRUE, FALSE), FALSE)
    ELSE IF name \in {"base16", "base36"}
    THEN raw_register(table, name, BaseEncoding(name, FALSE, TRUE), FALSE)
    ELSE LET args == CHOOSE a \in BOOLEAN \X BOOLEAN \X BOOLEAN :
                         base32_key(a[1], a[2], a[3]) = name
         IN  jit_register_base32(table, args[1], args[2], args[3], debug)

\* raw.get(name): the exception or the encoding, and the table after the call
raw_get(table, name, debug) ==
    IF name \in DOMAIN table
    THEN [err |-> "none", enc |-> table[name], table |-> table]
    ELSE IF name \notin jit_registered_encodings
    THEN [err |-> "KeyError", enc |-> NoEncoding, table |-> table]
    ELSE With(jit_register_encoding(table, name, debug), LAMBDA r :
            IF r.err # "none"
            THEN [err |-> r.err, enc |-> NoEncoding, table |-> table]
            ELSE [err |-> "none", enc |-> r.table[name], table |-> r.table])

\* The names given to the calls of the model.
RawNames ==
    {"base16", "base32", "base32padupper", "base58btc", "identity",
     "my-encoding"}

\* No call of multibase.raw made since the module was loaded.
RawIdle ==
    /\ _raw_encodings = raw_encodings_loaded
    /\ lop = "none"
    /\ larg = <<>>
    /\ lres = "none"

\* raw.register(name, enc, overwrite=overwrite)
RawRegister ==
    \E name \in RawNames, overwrite \in BOOLEAN :
        LET r == raw_register(_raw_encodings, name,
                              CustomEncoding("my-encoder"), overwrite)
        IN  /\ lop' = "register"
            /\ larg' = [name |-> name, overwrite |-> overwrite]
            /\ lres' = r.err
            /\ _raw_encodings' = r.table
            /\ UNCHANGED <<varintVars, cidVars, multiaddrVars, multicodecVars,
                           tableVars, multibaseVars, constructVars,
                           multihashVars, proquintVars, threadVars,
                           protoVars>>

\* raw.unregister(name)
RawUnregister ==
    \E name \in RawNames :
        LET r == raw_unregister(_raw_encodings, name)
        IN  /\ lop' = "unregister"
            /\ larg' = [name |-> name]
            /\ lres' = r.err
            /\ _raw_encodings' = r.table
            /\ UNCHANGED <<varintVars, cidVars, multiaddrVars, multicodecVars,
                           tableVars, multibaseVars, constructVars,
                           multihashVars, proquintVars, threadVars,
                           protoVars>>

\* raw.get(name)
RawGet ==
    \E name \in RawNames, debug \in BOOLEAN :
        LET r == raw_get(_raw_encodings, name, debug)
        IN  /\ lop' = "get"
            /\ larg' = [name |-> name, debug |-> debug]
            /\ lres' = r.err
            /\ _raw_encodings' = r.table
            /\ UNCHANGED <<varintVars, cidVars, multiaddrVars, multicodecVars,
                           tableVars, multibaseVars, constructVars,
                           multihashVars, proquintVars, threadVars,
                           protoVars>>

NextRaw == RawRegister \/ RawUnregister \/ RawGet

\* ---------------------------------------------------------- specifications

\* No call of the later sections made yet.
LaterIdle == ProquintIdle /\ ThreadsIdle /\ RawIdle /\ ProtoIdle

RestIdle ==
    MulticodecIdle /\ TableIdle /\ MultibaseIdle /\ ConstructIdle
    /\ MultihashIdle
    /\ LaterIdle

InitVarint == VarintIdle /\ CidIdle /\ MultiaddrIdle /\ RestIdle
SpecVarint == InitVarint /\ [][NextVarint]_vars
SpecVarintRaw == InitVarint /\ [][NextVarintRaw]_vars

InitCID == VarintIdle /\ CidIdle /\ MultiaddrIdle /\ RestIdle
SpecCID == InitCID /\ [][NextCID]_vars

InitMultiaddr == VarintIdle /\ CidIdle /\ MultiaddrIdle /\ RestIdle
SpecMultiaddr == InitMultiaddr /\ [][NextMultiaddr]_vars

InitMulticodec == VarintIdle /\ CidIdle /\ MultiaddrIdle /\ RestIdle
SpecMulticodec == InitMulticodec /\ [][NextMulticodec]_vars

InitMultibase == VarintIdle /\ CidIdle /\ MultiaddrIdle /\ RestIdle
SpecMultibase == InitMultibase /\ [][NextMultibase]_vars

InitConstruct ==
    /\ VarintIdle /\ CidIdle /\ MultiaddrIdle
    /\ MulticodecIdle /\ TableIdle /\ MultibaseIdle /\ MultihashIdle
    /\ LaterIdle
    /\ xin \in ConstructInputs
    /\ xres = NoOutcome
SpecConstruct == InitConstruct /\ [][NextConstruct]_vars

InitRaw == VarintIdle /\ CidIdle /\ MultiaddrIdle /\ RestIdle
SpecRaw == InitRaw /\ [][NextRaw]_vars

InitProto == VarintIdle /\ CidIdle /\ MultiaddrIdle /\ RestIdle
SpecProto == InitProto /\ [][NextProto]_vars

InitThreads == VarintIdle /\ CidIdle /\ MultiaddrIdle /\ RestIdle
SpecThreads == InitThreads /\ [][NextThreads]_vars

InitProquint ==
    /\ VarintIdle /\ CidIdle /\ MultiaddrIdle
    /\ MulticodecIdle /\ TableIdle /\ MultibaseIdle /\ ConstructIdle
    /\ MultihashIdle /\ ThreadsIdle /\ RawIdle /\ ProtoIdle
    /\ pin \in {[op |-> "encode", b |-> b] : b \in ProquintBytes}
            \cup {[op |-> "decode", s |-> t] : t \in ProquintStrings}
    /\ pres = NoDigest
SpecProquint == InitProquint /\ [][NextProquint]_vars

InitMultihash ==
    /\ VarintIdle /\ CidIdle /\ MultiaddrIdle
    /\ MulticodecIdle /\ TableIdle /\ MultibaseIdle /\ ConstructIdle
    /\ LaterIdle
    /\ hin \in DigestInputs \cup UnwrapInputs
    /\ hres = NoDigest
SpecMultihash == InitMultihash /\ [][NextMultihash]_vars

InitTable ==
    /\ VarintIdle /\ CidIdle /\ MultiaddrIdle /\ MulticodecIdle
    /\ MultibaseIdle /\ ConstructIdle /\ MultihashIdle
    /\ LaterIdle
    /\ tin \in TableInputs
    /\ tres = NoTables
SpecTable == InitTable /\ [][NextTable]_vars

\* ---------------------------------------------------------- varint: claims

\* 0 <= x < 2^63
InVarintRange(x) == ~x.neg /\ Below2Pow7(x.mag, 9)

\* C8: for every integer x with 0 <= x < 2^63, encode(x) succeeds and
\* decode(encode(x)) returns x.
C8_RoundTrip ==
    /\ (vop \in {"encode", "roundtrip"} /\ InVarintRange(vx)) => venc.err = "none"
    /\ vop = "roundtrip" => (vdec.err = "none" /\ vdec.val = vx.mag)

\* A nine-byte encoding of an integer of at least 2^56 with a zero group
\* inside has been decoded back.
C8_Witness ==
    /\ vop = "roundtrip"
    /\ Len(vx.mag) = 9
    /\ vx.mag[1] = 0
    /\ vdec.err = "none"

\* The position of the first byte of b without the continuation bit, or 0.
Terminator(b) ==
    IF \E i \in 1..Len(b) : b[i] < 128
    THEN CHOOSE i \in 1..Len(b) : b[i] < 128 /\ \A j \in 1..(i-1) : b[j] >= 128
    ELSE 0

\* The five reasons the documentation of decode gives for a ValueError.
DecodeMustRaise(b) ==
    LET k == Terminator(b)
    IN  \/ b = <<>>                                        \* no bytes
        \/ (Len(b) >= 9 /\ \A i \in 1..9 : b[i] >= 128)    \* 9th byte continues
        \/ k = 0                                           \* last byte continues
        \/ (k > 1 /\ b[k] = 0)                             \* not minimal
        \/ (k > 0 /\ k < Len(b))                           \* bytes remain

\* C9: decode on a bytes-like input raises ValueError exactly for the empty
\* input, a continuation byte in 9th place, a continuation byte in last
\* place, a value not minimally encoded and bytes left after the varint; it
\* returns the value otherwise, and what it accepts is what encode produces:
\* encode(decode(b)) = b.
C9_DecodeRejects ==
    vop \in {"decode", "roundtrip"} =>
        /\ vdec.err = "ValueError" <=> DecodeMustRaise(vin)
        /\ vdec.err \in {"none", "ValueError"}
        /\ vdec.err = "none" =>
               varint_encode([neg |-> FALSE, mag |-> vdec.val])
                   = [err |-> "none", bytes |-> vin]

\* decode has accepted a nine-byte input.
C9_Witness ==
    /\ vop = "decode"
    /\ vdec.err = "none"
    /\ Len(vin) = 9

\* The least positive k with x < 2^(7k).
MinBytes(mag) ==
    CHOOSE k \in 1..(Len(mag) + 1) :
        /\ Below2Pow7(mag, k)
        /\ \A j \in 1..(k-1) : ~Below2Pow7(mag, j)

\* C10: encode(x) raises ValueError exactly when x < 0 or x >= 2^63;
\* otherwise its result has k bytes for the least positive k with
\* x < 2^(7k), every byte but the last with the top bit set and the last
\* with it clear.
C10_EncodeShape ==
    vop = "encode" =>
        /\ venc.err = "ValueError" <=> ~InVarintRange(vx)
        /\ venc.err \in {"none", "ValueError"}
        /\ venc.err = "none" =>
            LET bs == venc.bytes
            IN  /\ Len(bs) = MinBytes(vx.mag)
                /\ \A i \in 1..(Len(bs) - 1) : bs[i] >= 128
                /\ bs[Len(bs)] < 128

\* encode has produced nine bytes for 2^63 - 1.
C10_Witness ==
    /\ vop = "encode"
    /\ vx = [neg |-> FALSE, mag |-> Rep(9, 127)]
    /\ venc.err = "none"
    /\ Len(venc.bytes) = 9

\* ------------------------------------------------------------- CID: claims

\* Whether the constructor accepts the fields of the CID c.
ConstructorAccepts(c) ==
    CID_new({}, c.base.name, c.version, c.codec.name,
            DigestBytes(c.digest)).err = "none"

\* The rule of CID versions: 0 or 1, and version 0 only with base58btc,
\* dag-pb and sha2-256.
VersionRule(c) ==
    /\ c.version \in {0, 1}
    /\ c.version = 0 =>
        /\ c.base.name = "base58btc"
        /\ c.codec.name = "dag-pb"
        /\ c.hashfun.name = "sha2-256"

\* C1: every CID that the constructor, decode, peer_id or set returned has
\* version 0 or 1, and a CID of version 0 has multibase base58btc, multicodec
\* dag-pb and multihash sha2-256.
C1_VersionInvariant == \A c \in instances : VersionRule(c)

\* C1: set has returned a CID of version 0 that breaks the rule.
C1_SetBreaksRule ==
    /\ cop = "set"
    /\ cother # NoCID
    /\ VersionRule(cid)
    /\ ~VersionRule(cother)

\* C4: for every CID the constructor accepts, CID.decode(cid.encode()) and
\* CID.decode(bytes(cid)).set(base=cid.base) return a CID equal to it.
C4_RoundTrip ==
    (cop \in {"roundtrip_str", "roundtrip_bytes"} /\ ConstructorAccepts(cid))
        => (cerr = "none" /\ CID_eq(cother, cid))

\* C5: the bytes of a CID of version 0 are its multihash digest and are 34
\* bytes long; the bytes of a CID of version 1 are the varint of 1, the
\* varint of the code of its multicodec and its multihash digest.
C5_BytesShape ==
    \A c \in instances :
        /\ c.version = 0 =>
            (CID_bytes(c) = c.digest /\ Len(CID_bytes(c)) = 34)
        /\ c.version = 1 =>
            CID_bytes(c) = <<1>> \o VarintBytes(c.codec.code) \o c.digest

\* Whether the digest of the CID c is a valid multihash wrapping: the code is
\* that of its hash function, the size is that of the raw digest, and the raw
\* digest is no longer than the hash function allows.
ValidWrapping(c) ==
    LET u == multihash_unwrap_raw(c.digest)
    IN  /\ u.err = "none"
        /\ u.code = c.hashfun.code
        /\ raw_digest_size_ok(u.raw, multihash_max_digest_size[c.hashfun.name])

\* C6: every CID that the constructor or decode returned carries a valid
\* multihash wrapping, and decode returns only what the constructor accepts.
C6_ValidDigest ==
    (cop \in {"new", "decode"} /\ cid # NoCID)
        => (ValidWrapping(cid) /\ ConstructorAccepts(cid))

\* C6: decode has returned a CID whose raw digest is longer than its hash
\* function allows.
C6_DecodeTooLong ==
    /\ cop = "decode"
    /\ cid # NoCID
    /\ ~ValidWrapping(cid)

\* C7: two CIDs are equal exactly when they have the same version, multicodec
\* and multihash digest, whatever their multibases and whether or not they
\* are the same object; and equal CIDs have equal hashes.
C7_Equality ==
    \A a, b \in instances :
        /\ CID_eq(a, b) <=>
            (a.version = b.version /\ a.codec = b.codec /\ a.digest = b.digest)
        /\ CID_eq(a, b) => CID_hash(a) = CID_hash(b)

\* C7: two distinct objects of different multibases that are equal.
C7_Witness ==
    /\ cid # NoCID
    /\ cother # NoCID
    /\ cid.oid # cother.oid
    /\ cid.base # cother.base
    /\ CID_eq(cid, cother)
    /\ CID_hash(cid) = CID_hash(cother)

\* ------------------------------------------------------- multiaddr: claims

\* Whether the bytes b end right after the code of a protocol that needs an
\* address: an encoding of complete segments, then the varint of the code.
EndsAfterCode(b) ==
    \E m \in {<<>>, <<204, 3>>, <<4, 127, 0, 0, 1>>, <<145, 2, 0, 80>>},
       n \in {"ip4", "udp"} :
        b = m \o VarintBytes(multicodec_get_name(n).codec.code)

\* C2: decode raises on bytes that end right after the varint code of a
\* protocol that needs an address.
C2_DecodeRaises ==
    (mop = "decode" /\ EndsAfterCode(min)) => merr # "none"

\* C2: decode has returned a multiaddr for such bytes.
C2_DecodeDropsProtocol ==
    /\ mop = "decode"
    /\ EndsAfterCode(min)
    /\ merr = "none"
    /\ Multiaddr_bytes(ma).bytes # min

\* C3: for a complete multiaddr ma, decode(bytes(ma)) and
\* decode(bytes(parse(str(ma)))) are equal to ma, and the string of
\* decode(bytes(ma)) is the string of ma.
C3_RoundTrip ==
    (mop \in {"roundtrip_bytes", "roundtrip_str"} /\ ~ma.is_incomplete)
        => /\ merr = "none"
           /\ Multiaddr_eq(mres, ma)
           /\ Multiaddr_str(mres) = Multiaddr_str(ma)

\* C3: the round trip through bytes has returned a multiaddr that differs
\* from the one it started from.
C3_RoundTripDiffers ==
    /\ mop = "roundtrip_bytes"
    /\ ~ma.is_incomplete
    /\ merr = "none"
    /\ ~Multiaddr_eq(mres, ma)

\* Whether the Protos and Addrs a are what a Multiaddr may hold: no protocol
\* twice, and a Proto with an addr_size other than 0 only as the last one.
NoProtocolTwice(a) ==
    \A i, j \in 1..Len(a) : i # j => a[i].proto.name # a[j].proto.name
BareProto(seg) == ~seg.isaddr /\ proto_impl[seg.proto.name] # 0
BareOnlyLast(a) == \A i \in 1..(Len(a) - 1) : ~BareProto(a[i])

\* Whether the Multiaddr m holds what it may, and is_incomplete tells whether
\* its last element is a Proto with an addr_size other than 0.
WellFormed(m) ==
    /\ NoProtocolTwice(m.addrs)
    /\ BareOnlyLast(m.addrs)
    /\ m.is_incomplete
        <=> (Len(m.addrs) > 0 /\ BareProto(m.addrs[Len(m.addrs)]))

\* The Protos and Addrs that the last call would put in a Multiaddr: the
\* arguments of the constructor, the elements of ma and of the right operand
\* of / (unless it is an address value), the elements at the slice.
WouldHold ==
    IF mop = "build" THEN min
    ELSE IF mop = "slash" /\ min.kind # "value"
    THEN ma.addrs \o min.addrs
    ELSE IF mop = "slice"
    THEN TupleSlice(ma.addrs, min.start, min.stop, min.step)
    ELSE <<>>

\* C19: every Multiaddr that the constructor, /, a slice, parse or decode
\* returns holds no protocol twice and a Proto with an addr_size other than 0
\* only as its last element, is_incomplete telling whether there is one; a
\* constructor call, a / or a slice that would put anything else in a
\* Multiaddr raises ValueError.
C19_WellFormed ==
    /\ ma # NoMultiaddr => WellFormed(ma)
    /\ mres # NoMultiaddr => WellFormed(mres)
    /\ (mop \in {"build", "slash", "slice"}
            /\ ~(NoProtocolTwice(WouldHold) /\ BareOnlyLast(WouldHold)))
        => /\ merr = "ValueError"
           /\ (IF mop = "build" THEN ma ELSE mres) = NoMultiaddr

\* C19: a / of two complete Multiaddrs that share a protocol has raised
\* ValueError.
C19_Witness ==
    /\ mop = "slash"
    /\ min.kind = "multiaddr"
    /\ ~ma.is_incomplete
    /\ ~NoProtocolTwice(WouldHold)
    /\ merr = "ValueError"
    /\ mres = NoMultiaddr

\* C21: ma / value returns only if ma is incomplete, and then a multiaddr
\* whose last element is the Addr of the last protocol of ma with the value
\* and whose other elements are those of ma; ma / other for a Proto, an Addr
\* or a Multiaddr returns only if ma is not incomplete, and then the elements
\* of ma followed by those of other; a value after a multiaddr that is not
\* incomplete, and anything else after one that is, raise ValueError.
C21_Slash ==
    mop = "slash" =>
        LET l == Len(ma.addrs)
        IN  IF min.kind = "value"
            THEN /\ ~ma.is_incomplete => merr = "ValueError"
                 /\ merr = "none" =>
                     /\ ma.is_incomplete
                     /\ Len(mres.addrs) = l
                     /\ SubSeq(mres.addrs, 1, l - 1) = SubSeq(ma.addrs, 1, l - 1)
                     /\ mres.addrs[l].isaddr
                     /\ mres.addrs[l].proto = ma.addrs[l].proto
                     /\ IF min.value.isbytes
                        THEN mres.addrs[l].value_bytes = min.value.v
                        ELSE mres.addrs[l].value = min.value.v
            ELSE /\ ma.is_incomplete => merr = "ValueError"
                 /\ merr = "none" =>
                     /\ ~ma.is_incomplete
                     /\ mres.addrs = ma.addrs \o min.addrs

\* C21: a / has given the last protocol of a multiaddr of two elements its
\* address.
C21_Witness ==
    /\ mop = "slash"
    /\ min.kind = "value"
    /\ merr = "none"
    /\ Len(mres.addrs) = 2
    /\ mres.addrs[2].isaddr

\* Whether the text t ends with the name of a protocol that needs an address,
\* after the text of a complete multiaddr without that protocol.
EndsWithProtocol(t) ==
    \E m \in {<<>>, <<47>> \o ProtoText["quic"],
               <<47>> \o ProtoText["ip4"] \o <<47, 49, 46, 50, 46, 51, 46, 52>>},
       n \in {"ip4", "udp"} :
        /\ t = m \o <<47>> \o ProtoText[n]
        /\ ~(n = "ip4" /\ Len(m) > 5)

\* C20: parse of a text whose last protocol needs an address and has none
\* raises MultiaddrValueError if allow_incomplete is false, and otherwise
\* returns the incomplete multiaddr with that protocol as its last element.
C20_ParseIncomplete ==
    (mop = "parse" /\ EndsWithProtocol(min)) =>
        IF mallow
        THEN /\ merr = "none"
             /\ ma.is_incomplete
             /\ Multiaddr_str(ma) = min
             /\ BareProto(ma.addrs[Len(ma.addrs)])
        ELSE merr = "MultiaddrValueError"

\* C20: parse of such a text, allow_incomplete being false, has raised a
\* ValueError that is not a MultiaddrValueError.
C20_PlainValueError ==
    /\ mop = "parse"
    /\ EndsWithProtocol(min)
    /\ ~mallow
    /\ merr = "ValueError"

\* ------------------------------------------------------ multicodec: claims

\* C11: for every multicodec c that get returns, by name or by code, and every
\* byte string b, unwrap(wrap(c, b)) returns (c, b).
C11_WrapUnwrap ==
    rop = "wrap" =>
        /\ rres.err = "none"
        /\ Multicodec_eq(rres.codec, rarg.codec)
        /\ rres.raw = rarg.raw

\* C11: unwrap has returned another multicodec than the one that get returned
\* and wrap was given.
C11_OtherCodec ==
    /\ rop = "wrap"
    /\ rres.err = "none"
    /\ rres.raw = rarg.raw
    /\ ~Multicodec_eq(rres.codec, rarg.codec)

\* Whether register must raise: the code is registered and overwrite is
\* false, or the name is registered with a different code.
RegisterMustRaise(ct, nt, codec, overwrite) ==
    \/ ~overwrite /\ codec.code \in DOMAIN ct
    \/ \E n \in DOMAIN nt : n = codec.name /\ nt[n].code # codec.code

\* C12: register raises ValueError when the code is registered and overwrite
\* is false, or when the name is registered with a different code; when it
\* raises, both tables are left as they were; when it returns, get by the name
\* and get by the code of the entry both return the entry.
C12_Register ==
    [][rop' = "register" =>
        /\ RegisterMustRaise(_code_table, _name_table,
                             rarg'.codec, rarg'.overwrite)
            => rres'.err = "ValueError"
        /\ rres'.err # "none" =>
            (_code_table' = _code_table /\ _name_table' = _name_table)
        /\ rres'.err = "none" =>
            /\ multicodec_get(_code_table', _name_table',
                              <<rarg'.codec.name>>, <<>>)
                = [err |-> "none", codec |-> rarg'.codec]
            /\ multicodec_get(_code_table', _name_table',
                              <<>>, <<rarg'.codec.code>>)
                = [err |-> "none", codec |-> rarg'.codec]]_vars

\* C12: register with overwrite has raised because the name was registered
\* with another code.
C12_Witness ==
    /\ rop = "register"
    /\ rarg.overwrite
    /\ rres.err = "ValueError"
    /\ rarg.codec.name \in DOMAIN _name_table
    /\ _name_table[rarg.codec.name].code # rarg.codec.code

\* The registered entries: what get returns by some name or by some code.
Registered(ct, nt) == {nt[n] : n \in DOMAIN nt} \cup {ct[c] : c \in DOMAIN ct}

\* Whether get returns the entry m both by its name and by its code.
GetReturnsBoth(ct, nt, m) ==
    /\ multicodec_get(ct, nt, <<m.name>>, <<>>) = [err |-> "none", codec |-> m]
    /\ multicodec_get(ct, nt, <<>>, <<m.code>>) = [err |-> "none", codec |-> m]

\* C13: unregister raises KeyError exactly when exists is false for its
\* argument; after it has returned, neither the name nor the code of the
\* removed entry exists, and get still returns every other registered entry
\* by its name and by its code.
C13_Unregister ==
    [][rop' = "unregister" =>
        LET removed == multicodec_get(_code_table, _name_table,
                                      rarg'.name, rarg'.code).codec
        IN  /\ (rres'.err = "KeyError") <=>
                ~multicodec_exists(_code_table, _name_table,
                                   rarg'.name, rarg'.code).val
            /\ rres'.err = "none" =>
                /\ removed.name \notin DOMAIN _name_table'
                /\ removed.code \notin DOMAIN _code_table'
                /\ \A m \in Registered(_code_table, _name_table) \ {removed} :
                    GetReturnsBoth(_code_table', _name_table', m)]_vars

\* C13: unregister by name has returned, and an entry that is still
\* registered under its name is no longer known under its code.
C13_LosesCode ==
    /\ rop = "unregister"
    /\ rres.err = "none"
    /\ \E n \in DOMAIN _name_table :
        _name_table[n].code \notin DOMAIN _code_table

\* Whether two entries of the sequence ms have the same name.
SharesName(ms) ==
    \E i, j \in 1..Len(ms) : i # j /\ ms[i].name = ms[j].name

\* C14: build_multicodec_tables raises ValueError whenever two entries of its
\* input have the same name.
C14_NameCollision ==
    (tres # NoTables /\ SharesName(tin.multicodecs)) => tres.err = "ValueError"

\* C14: build_multicodec_tables has returned tables for an input in which a
\* name appears twice.
C14_SkipsDraft ==
    /\ tres # NoTables
    /\ SharesName(tin.multicodecs)
    /\ tres.err = "none"

\* ------------------------------------------------------- multibase: claims

\* Whether the raw encoding of the multibase enc takes the bytes b to a string
\* and back.
RawRoundTrips(enc, b) ==
    /\ raw_encode(enc.name, b).err = "none"
    /\ raw_decode(enc.name, raw_encode(enc.name, b).str)
        = [err |-> "none", bytes |-> b]

\* C15: for every multibase enc that get returns and every byte string b that
\* its raw encoding takes back and forth, multibase.decode(multibase.encode(b,
\* enc)) and enc.decode(enc.encode(b)) return b, and other.decode(enc.encode(b))
\* raises ValueError for every instance other that is not equal to enc.
C15_EncodeDecode ==
    (bop = "encode" /\ RawRoundTrips(barg.enc, barg.b)) =>
        /\ bres.decoded = [err |-> "none", bytes |-> barg.b]
        /\ bres.enc_decoded = [err |-> "none", bytes |-> barg.b]
        /\ \A other \in MultibaseInstances :
            ~Multibase_eq(other, barg.enc) =>
                bres.other_decoded[other].err = "ValueError"

\* C15: an instance that get returned by name has encoded bytes, and its own
\* decode raises on the string because the code belongs to another instance.
C15_CodeTakenOver ==
    /\ bop = "encode"
    /\ RawRoundTrips(barg.enc, barg.b)
    /\ bres.enc_decoded.err = "ValueError"
    /\ \E other \in MultibaseInstances :
        /\ ~Multibase_eq(other, barg.enc)
        /\ bres.other_decoded[other].err = "none"

\* Whether the code is given in the hex form, with the prefix 0x.
GivenInHex(code) == Len(code) >= 2 /\ code[1] = 48 /\ code[2] = 120

\* Whether the code point is a printable ASCII character.
PrintableASCII(c) == c >= 32 /\ c < 127

\* C16: Multibase(...) returns only if the code of the instance is one ASCII
\* character: a code given in hex form denotes one byte that is not
\* printable, a code given literally is one printable ASCII character; any
\* other code is rejected with ValueError.
C16_CodeIsASCII ==
    xres # NoOutcome =>
        /\ xres.err \in {"none", "ValueError"}
        /\ xres.err = "none" =>
            /\ Len(xres.code) = 1
            /\ xres.code[1] < 128
            /\ GivenInHex(xin.code) =>
                (Len(xin.code) = 4 /\ ~PrintableASCII(xres.code[1]))
            /\ ~GivenInHex(xin.code) =>
                (xin.code = xres.code /\ PrintableASCII(xres.code[1]))

\* C16: Multibase(...) has returned an instance whose code is a character that
\* is not ASCII.
C16_NotASCII ==
    /\ xres # NoOutcome
    /\ xres.err = "none"
    /\ xres.code[1] >= 128

\* ------------------------------------------------------- multihash: claims

\* C17: for every hash function h with a Multihash object, every data d and
\* every size that the hash function admits, unwrap(digest(d, h, size)) and
\* unwrap(digest(d, h, size), h) return the raw digest that the hash function
\* of h produces for (d, size), and unwrap with another hash function raises.
C17_DigestUnwrap ==
    (hin.op = "digest" /\ hres # NoDigest
        /\ multihash_get_name(hin.hashfun).err = "none"
        /\ Hashfun(hin.hashfun, hin.data, hin.size).err = "none") =>
        /\ hres.digest.err = "none"
        /\ hres.unwrapped = Hashfun(hin.hashfun, hin.data, hin.size)
        /\ hres.unwrapped_h = Hashfun(hin.hashfun, hin.data, hin.size)
        /\ \A other \in HashfunNames \ {hin.hashfun} :
            hres.unwrapped_other[other].err # "none"

\* C17: digest has raised for a hash function with a Multihash object, on
\* data and a size that the hash function admits.
C17_DigestRaises ==
    /\ hin.op = "digest"
    /\ hres # NoDigest
    /\ multihash_get_name(hin.hashfun).err = "none"
    /\ Hashfun(hin.hashfun, hin.data, hin.size).err = "none"
    /\ hres.digest.err # "none"

\* The max digest size of the hash functions, where one is defined.
MaxDigestSize(name) ==
    IF name = "sha2-256" THEN 32 ELSE IF name = "murmur3-32" THEN 4 ELSE NoMax

\* Whether the code is that of a multicodec tagged multihash.
KnownMultihash(code) ==
    \E m \in multicodec_rows : m.code = code /\ m.tag = "multihash"

\* C18: Multihash.unwrap(data) returns the raw digest only if the leading
\* varint is the code of this multihash, the varint after it is the number of
\* the bytes that remain, and that number is within the max digest size if
\* there is one; otherwise it raises, KeyError when the code is not that of a
\* known multihash and ValueError for a mismatch of code, length or size.
C18_UnwrapChecks ==
    (hin.op = "unwrap" /\ hres # NoDigest) =>
        LET c == varint_decode_raw(hin.data)
            sz == varint_decode_raw(c.rest)
            self == multihash_get_name(hin.hashfun).hashfun
            matches ==
                /\ c.err = "none"
                /\ NatOf(c.val) = self.code
                /\ sz.err = "none"
                /\ NatOf(sz.val) = Len(sz.rest)
                /\ MaxDigestSize(self.name) # NoMax =>
                    Len(sz.rest) <= MaxDigestSize(self.name)
        IN  /\ hres.err = "none" => (matches /\ hres.bytes = sz.rest)
            /\ ~matches => hres.err \in {"ValueError", "KeyError"}
            /\ (c.err = "none" /\ ~KnownMultihash(NatOf(c.val)))
                => hres.err = "KeyError"
            /\ (c.err = "none" /\ KnownMultihash(NatOf(c.val)) /\ ~matches)
                => hres.err = "ValueError"

\* C18: Multihash.unwrap has raised ValueError for a digest of sha2-256 with
\* the right code and length whose raw digest is longer than 32 bytes.
C18_Witness ==
    /\ hin.op = "unwrap"
    /\ hin.hashfun = "sha2-256"
    /\ hin.data = <<18, 33>> \o Rep(33, 7)
    /\ hres.err = "ValueError"

\* -------------------------------------------------------- proquint: claims

\* C22: for every byte string b, of even or odd length or empty, the proquint
\* raw decoder applied to what the raw encoder makes of b returns b; the
\* multibase proquint encoding of the bytes 127, 0, 0, 1 is "pro-lusab-babad",
\* which decodes to those bytes.
C22_Proquint ==
    (pin.op = "encode" /\ pres # NoDigest) =>
        /\ pres.decoded = [err |-> "none", bytes |-> pin.b]
        /\ pin.b = <<127, 0, 0, 1>> =>
            /\ pres.encoded = <<112, 114, 111, 45, 108, 117, 115, 97, 98, 45, 98, 97, 98, 97, 100>>
            /\ pres.multibase_decoded.err = "none"
            /\ pres.multibase_decoded.bytes = pin.b

\* C22: the bytes 127, 0, 0, 1 have been encoded and decoded, by the raw
\* encoding and by the multibase.
C22_Witness ==
    /\ pin.op = "encode"
    /\ pin.b = <<127, 0, 0, 1>>
    /\ pres # NoDigest
    /\ pres.multibase_decoded.bytes = pin.b

\* --------------------------------------------------- CID, threads: claims

\* C23: two threads that construct CIDs with the same base, version, codec,
\* hashfun and digest obtain the same instance: the table of instances never
\* gives two threads different objects for one key.
C23_SameInstance ==
    \A t, u \in Threads :
        (pc[t] = "return" /\ pc[u] = "return" /\ tkey[t] = tkey[u])
            => tinstance[t] = tinstance[u]

\* C23: two threads have returned from CID._new_instance with the same key
\* and with different objects.
C23_TwoInstances ==
    \E t, u \in Threads :
        /\ pc[t] = "return" /\ pc[u] = "return"
        /\ tkey[t] = tkey[u]
        /\ tinstance[t] # tinstance[u]

\* --------------------------------------------------- multibase.raw: claims

\* C24: in every state that register, unregister and get calls of
\* multibase.raw reach, a get of a name for which exists returns True returns
\* the encoding registered under that name and does not raise.
C24_LazyGet ==
    [][(lop' = "get" /\ raw_exists(_raw_encodings, larg'.name))
          => /\ lres' = "none"
             /\ larg'.name \in DOMAIN _raw_encodings']_vars

\* C24: get has raised AssertionError for a name for which exists returns
\* True.
C24_GetAsserts ==
    /\ lop = "get"
    /\ raw_exists(_raw_encodings, larg.name)
    /\ lres = "AssertionError"

\* --------------------------------------------------- CID: claims of decode

\* The exceptions that are ValueErrors: the class itself, and the classes of
\* the errors of the raw decoders.
ValueErrors ==
    {"ValueError", "UnicodeDecodeError", "binascii.Error",
     "bases.DecodingError"}

\* C25: CID.decode, on a string or on bytes, returns a CID or raises a
\* ValueError or a KeyError, and nothing else, also for a string whose
\* multibase payload decodes to no bytes.
C25_DecodeErrors ==
    cop = "decode" => cerr \in {"none", "KeyError"} \cup ValueErrors

\* C25: CID.decode has raised IndexError for a string that is a multibase
\* prefix and nothing else.
C25_IndexError ==
    /\ cop = "decode"
    /\ Len(cin) = 1
    /\ multibase_decode_raw(cin).err = "none"
    /\ multibase_decode_raw(cin).bytes = <<>>
    /\ cerr = "IndexError"

\* Whether a string has the shape of a CIDv0: 46 characters, the first two
\* being "Qm".
LooksV0(s) == Len(s) = 46 /\ s[1] = 81 /\ s[2] = 109

\* Whether a string is a multibase string of which the payload starts with
\* the byte 0x12.
StartsWith0x12(s) ==
    LET r == multibase_decode_raw(s)
    IN  r.err = "none" /\ r.bytes # <<>> /\ r.bytes[1] = 18

\* C26: CID.decode of a string returns a CID of version 0 only for a string
\* of 46 characters that starts with "Qm"; every other string of which the
\* multibase payload starts with 0x12 is rejected with ValueError.
C26_StringV0 ==
    [][DecodeEncoded =>
        /\ (cerr' = "none" /\ cid'.version = 0 => LooksV0(cin'))
        /\ (~LooksV0(cin') /\ StartsWith0x12(cin')
                => cerr' = "ValueError" /\ cid' = NoCID)]_vars

\* C26: CID.decode has rejected with ValueError a multibase string that holds
\* the 34 bytes of a CIDv0.
C26_Witness ==
    /\ cop = "decode"
    /\ ~LooksV0(cin)
    /\ StartsWith0x12(cin)
    /\ Len(multibase_decode_raw(cin).bytes) = 34
    /\ cerr = "ValueError"
    /\ cid = NoCID

\* ------------------------------------------- varint: claims of decode_raw

\* C27: for 0 <= x < 2^63 and any bytes tail, decode_raw(encode(x) + tail)
\* returns x, the length of encode(x) and tail, the buffer being as it was;
\* on a stream holding encode(x) + tail, decode and decode_raw return x and
\* consume the bytes of encode(x) and no more.
C27_DecodeRaw ==
    LET n == Len(venc.bytes)
        tail == SubSeq(vin, n + 1, Len(vin))
    IN  /\ (/\ vop \in {"decode_raw", "decode_stream", "decode_raw_stream"}
             /\ InVarintRange(vx)) =>
            /\ vin = venc.bytes \o tail
            /\ vdec.err = "none"
            /\ vdec.val = vx.mag
            /\ vdec.n = n
            /\ vdec.rest = tail
        /\ vop = "decode_raw" => vpos = 0
        /\ vop \in {"decode_stream", "decode_raw_stream"} => vpos = n

\* decode_raw has read the nine bytes of 2^63 - 1 off a stream that holds two
\* continuation bytes after them.
C27_Witness ==
    /\ vop = "decode_raw_stream"
    /\ vx.mag = Rep(9, 127)
    /\ vin = venc.bytes \o <<128, 255>>
    /\ vdec.err = "none"
    /\ vpos = 9
    /\ vdec.rest = <<128, 255>>

\* ------------------------------------- multiaddr: claims of is_addr_valid

\* C28: p.is_addr_valid(v) and `v in p` never raise, for a string or bytes
\* v: they return True exactly when Addr(p, v) succeeds, and False exactly
\* when Addr(p, v) fails.
C28_IsAddrValid ==
    aop \in {"is_addr_valid", "contains"} =>
        /\ avalid.err = "none"
        /\ avalid.valid <=> Addr_new(aproto, avalue).err = "none"

\* C28: ip4.is_addr_valid("1.2.3") has raised the MultiaddrValueError of the
\* raw encoder, which makes Addr(ip4, "1.2.3") fail.
C28_Raises ==
    /\ aop = "is_addr_valid"
    /\ aproto.name = "ip4"
    /\ avalue = StrValue(<<49, 46, 50, 46, 51>>)
    /\ Addr_new(aproto, avalue).err = "MultiaddrValueError"
    /\ avalid.err = "MultiaddrValueError"

\* ------------------------------------ multicodec: claims of the two tables

\* The entries of a table: the range of the mapping.
TableRange(t) == {t[k] : k \in DOMAIN t}

\* The entries of the input that claim the code.
Claiming(ms, code) == {ms[i] : i \in {i \in 1..Len(ms) : ms[i].code = code}}

\* The draft entries of the input that share their code with a permanent
\* entry of the input.
Superseded(ms) ==
    {m \in TableRange(ms) :
        /\ m.status = "draft"
        /\ \E p \in Claiming(ms, m.code) : p.status = "permanent"}

\* C29: when build_multicodec_tables returns, a code claimed by several input
\* entries maps to the one permanent entry among them, the name table holds
\* the entries of the code table and no other, and a draft superseded by a
\* permanent entry with its code is found neither by code nor by name.
C29_TablesAgree ==
    (tres # NoTables /\ tres.err = "none") =>
        LET ms == tin.multicodecs
            ct == tres.code_table
            nt == tres.name_table
        IN  /\ \A code \in DOMAIN ct :
                Cardinality(Claiming(ms, code)) > 1 =>
                    /\ ct[code].status = "permanent"
                    /\ \A p \in Claiming(ms, code) :
                           p.status = "permanent" => p = ct[code]
            /\ TableRange(nt) = TableRange(ct)
            /\ \A m \in Superseded(ms) :
                /\ ct[m.code] # m
                /\ m.name \in DOMAIN nt => nt[m.name] # m

\* C29: build_multicodec_tables has returned for a draft followed by a
\* permanent entry with the same code, and the name table still holds the
\* draft, which the code table does not.
C29_DraftByName ==
    /\ tres # NoTables
    /\ tres.err = "none"
    /\ Len(tin.multicodecs) = 2
    /\ tin.multicodecs[1] = MulticodecObject("identity", "private", 0, "draft")
    /\ tin.multicodecs[2] = MulticodecObject("my-codec", "private", 0, "permanent")
    /\ tres.code_table[0] = tin.multicodecs[2]
    /\ "identity" \in DOMAIN tres.name_table
    /\ tres.name_table["identity"] = tin.multicodecs[1]

\* Whether the two tables describe the same entries: get by the code of what
\* get returns by a name returns the same, and so by the name of what get
\* returns by a code.
TablesAgree(ct, nt) ==
    /\ \A n \in {n \in RegistryNames :
                    multicodec_exists(ct, nt, <<n>>, <<>>).val} :
        LET m == multicodec_get(ct, nt, <<n>>, <<>>)
        IN  multicodec_get(ct, nt, <<>>, <<m.codec.code>>) = m
    /\ \A c \in {c \in RegistryCodes :
                    multicodec_exists(ct, nt, <<>>, <<c>>).val} :
        LET m == multicodec_get(ct, nt, <<>>, <<c>>)
        IN  multicodec_get(ct, nt, <<m.codec.name>>, <<>>) = m

\* C30: after any calls of register, with or without overwrite, and of
\* unregister, returning or raising, the name table and the code table
\* describe the same entries.
C30_TablesAgree == TablesAgree(_code_table, _name_table)

\* C30: register with overwrite has returned, and the name ip4 still leads to
\* an entry that code 4 no longer leads to.
C30_StaleName ==
    /\ rop = "register"
    /\ rarg.overwrite
    /\ rres.err = "none"
    /\ multicodec_exists(_code_table, _name_table, <<"ip4">>, <<>>).val
    /\ multicodec_get(_code_table, _name_table, <<>>, <<4>>)
        # multicodec_get(_code_table, _name_table, <<"ip4">>, <<>>)

====
